---- MODULE Spec2Model ----
(***************************************************************************)
(* State-machine model of the EnergyPlus .eso streaming parser of          *)
(* esofile_reader (processing/eplus/esofile_reader.pyx): statement line,   *)
(* preamble, data dictionary (read_header), data section (read_body) and   *)
(* the per-environment duplicate pruning (remove_duplicates).              *)
(*                                                                         *)
(* Text is modelled character by character: a string is a sequence of     *)
(* one-character strings, so that split, strip, int(), float() and the     *)
(* substring tests of the parser are computed, not assumed.                *)
(***************************************************************************)
EXTENDS Integers, Sequences, FiniteSets, TLC

(***************************************************************************)
(* Python string primitives used by the parser.                            *)
(***************************************************************************)
Digits == <<"0", "1", "2", "3", "4", "5", "6", "7", "8", "9">>

IsDigit(c) == \E d \in 1..10 : Digits[d] = c

DigitVal(c) == (CHOOSE d \in 1..10 : Digits[d] = c) - 1

IsSpace(c) == c \in {" ", "\n", "\t", "\r"}

\* s[a:b] of Python for 0-based a, b (clamped to the string).
Slice(s, a, b) ==
    LET lo == IF a < 0 THEN 0 ELSE a
        hi == IF b > Len(s) THEN Len(s) ELSE b
    IN  IF hi <= lo THEN <<>> ELSE SubSeq(s, lo + 1, hi)

RECURSIVE LStrip(_)
LStrip(s) == IF s # <<>> /\ IsSpace(Head(s)) THEN LStrip(Tail(s)) ELSE s

RECURSIVE RStrip(_)
RStrip(s) ==
    IF s # <<>> /\ IsSpace(s[Len(s)]) THEN RStrip(SubSeq(s, 1, Len(s) - 1)) ELSE s

\* str.strip()
Strip(s) == RStrip(LStrip(s))

\* sub in s
Contains(sub, s) ==
    \E i \in 0..(Len(s) - Len(sub)) : Slice(s, i, i + Len(sub)) = sub

\* s.index(c): 0-based position of the first c, -1 when there is none
\* (Python raises ValueError there).
IndexOf(c, s) ==
    IF \E i \in 1..Len(s) : s[i] = c
    THEN (CHOOSE i \in 1..Len(s) : s[i] = c /\ \A j \in 1..(i - 1) : s[j] # c) - 1
    ELSE -1

\* s.replace(c, "")
RECURSIVE Remove(_, _)
Remove(c, s) ==
    IF s = <<>> THEN <<>>
    ELSE IF Head(s) = c THEN Remove(c, Tail(s))
    ELSE <<Head(s)>> \o Remove(c, Tail(s))

\* s.split(sep)
RECURSIVE Split(_, _)
Split(s, sep) ==
    LET i == IndexOf(sep, s)
    IN  IF i < 0 THEN <<s>>
        ELSE <<Slice(s, 0, i)>> \o Split(Slice(s, i + 1, Len(s)), sep)

AllDigits(s) == s # <<>> /\ \A i \in 1..Len(s) : IsDigit(s[i])

RECURSIVE DigitsVal(_)
DigitsVal(s) ==
    IF s = <<>> THEN 0 ELSE 10 * DigitsVal(SubSeq(s, 1, Len(s) - 1)) + DigitVal(s[Len(s)])

Unsigned(t) == IF t # <<>> /\ Head(t) \in {"-", "+"} THEN Tail(t) ELSE t

IsNegative(t) == t # <<>> /\ Head(t) = "-"

\* int(s): surrounding white space and one sign are accepted; anything else
\* raises ValueError (ok = FALSE).
ParseInt(s) ==
    LET t == Strip(s)
        u == Unsigned(t)
    IN  IF AllDigits(u)
        THEN [ok |-> TRUE, val |-> IF IsNegative(t) THEN 0 - DigitsVal(u) ELSE DigitsVal(u)]
        ELSE [ok |-> FALSE, val |-> 0]

RECURSIVE DropTrailingZeros(_)
DropTrailingZeros(s) ==
    IF s # <<>> /\ s[Len(s)] = "0" THEN DropTrailingZeros(SubSeq(s, 1, Len(s) - 1)) ELSE s

\* The decimal literal grammar shared by float() and Decimal():
\* [sign] digits [. digits] or [sign] . digits, white space around it.
\* val is the number as [neg, ip, fr]: integer part and the fraction digits
\* without trailing zeros, so equal numbers have equal values.
ParseDecimal(s) ==
    LET t == Strip(s)
        u == Unsigned(t)
        d == IndexOf(".", u)
        ipart == IF d < 0 THEN u ELSE Slice(u, 0, d)
        fpart == IF d < 0 THEN <<>> ELSE Slice(u, d + 1, Len(u))
        good == /\ \A i \in 1..Len(ipart) : IsDigit(ipart[i])
                /\ \A i \in 1..Len(fpart) : IsDigit(fpart[i])
                /\ Len(ipart) + Len(fpart) > 0
    IN  IF good
        THEN [ok |-> TRUE,
              val |-> [neg |-> IsNegative(t) /\ (DigitsVal(ipart) # 0 \/ DropTrailingZeros(fpart) # <<>>),
                       ip |-> DigitsVal(ipart),
                       fr |-> DropTrailingZeros(fpart)]]
        ELSE [ok |-> FALSE, val |-> [neg |-> FALSE, ip |-> 0, fr |-> <<>>]]

\* float(s)
ParseFloat(s) == ParseDecimal(s)

\* int(Decimal(s).to_integral(rounding=ROUND_HALF_UP)): ties away from zero.
RoundHalfUp(v) ==
    LET up == v.fr # <<>> /\ DigitVal(v.fr[1]) >= 5
        m == v.ip + (IF up THEN 1 ELSE 0)
    IN  IF v.neg THEN 0 - m ELSE m

\* int(float(s)): truncation towards zero.
Truncate(v) == IF v.neg THEN 0 - v.ip ELSE v.ip

(***************************************************************************)
(* Statement line (first line of the file).                                *)
(***************************************************************************)
\* Outcome of a call: ok, or the exception it raises.
Ok(v) == [ok |-> TRUE, val |-> v, exc |-> "none"]

Raise(e) == [ok |-> FALSE, val |-> 0, exc |-> e]

\* get_eso_file_version: the five characters after the first space of the
\* stripped field, dots removed, as an integer.
get_eso_file_version(raw_version) ==
    LET stripped == Strip(raw_version)
        start == IndexOf(" ", stripped)
        digits == Remove(".", Slice(stripped, start + 1, start + 6))
    IN  IF start < 0 THEN Raise("ValueError")
        ELSE IF ~ParseInt(digits).ok THEN Raise("ValueError")
        ELSE Ok(ParseInt(digits).val)

\* One strptime field: one or two digits (four for the year) within range.
TimeField(s, maxlen, lo, hi) ==
    /\ AllDigits(s)
    /\ Len(s) <= maxlen
    /\ DigitsVal(s) >= lo
    /\ DigitsVal(s) <= hi

\* get_eso_file_timestamp: the text after "=" must read "%Y.%m.%d %H:%M".
\* The datetime itself is not used by the parser; only its failure is.
get_eso_file_timestamp(timestamp) ==
    LET parts == Split(timestamp, "=")
        stamp == Strip(parts[2])
        dt == Split(stamp, " ")
        ymd == Split(dt[1], ".")
        hm == Split(dt[2], ":")
    IN  IF Len(parts) < 2 THEN Raise("IndexError")
        ELSE IF /\ Len(dt) = 2
                /\ Len(ymd) = 3
                /\ Len(hm) = 2
                /\ Len(ymd[1]) = 4 /\ TimeField(ymd[1], 4, 1, 9999)
                /\ TimeField(ymd[2], 2, 1, 12)
                /\ TimeField(ymd[3], 2, 1, 31)
                /\ TimeField(hm[1], 2, 0, 23)
                /\ TimeField(hm[2], 2, 0, 59)
             THEN Ok(stamp)
             ELSE Raise("ValueError")

\* version, then timestamp: the first failure is the one raised.
StatementOutcome(version, timestamp) ==
    IF ~version.ok THEN version
    ELSE IF ~timestamp.ok THEN timestamp
    ELSE Ok(version.val)

\* _, _, raw_version, timestamp = line.split(","): exactly four fields.
StatementFields(fields) ==
    IF Len(fields) # 4 THEN Raise("ValueError")
    ELSE StatementOutcome(get_eso_file_version(fields[3]), get_eso_file_timestamp(fields[4]))

\* process_statement_line
process_statement_line(line) == StatementFields(Split(line, ","))

\* The reserved lines of a file without the Annual interval, whatever the
\* version.
PreAnnualItemId(version) == 5

\* read_file: 6 reserved lines from E+ 8.9 on, 5 before.
LastStandardItemId(version) == IF version >= 890 THEN 6 ELSE 5

(***************************************************************************)
(* Data dictionary lines.                                                  *)
(***************************************************************************)
TS == <<"t", "i", "m", "e", "s", "t", "e", "p">>

H == <<"h", "o", "u", "r", "l", "y">>

D == <<"d", "a", "i", "l", "y">>

M == <<"m", "o", "n", "t", "h", "l", "y">>

A == <<"a", "n", "n", "u", "a", "l">>

RP == <<"r", "u", "n", "p", "e", "r", "i", "o", "d">>

Intervals == {TS, H, D, M, A, RP}

\* Python's None, kept comparable with strings.
None == <<"None">>

UpperCase == <<"A", "B", "C", "D", "E", "F", "G", "H", "I", "J", "K", "L", "M",
               "N", "O", "P", "Q", "R", "S", "T", "U", "V", "W", "X", "Y", "Z">>

LowerCase == <<"a", "b", "c", "d", "e", "f", "g", "h", "i", "j", "k", "l", "m",
               "n", "o", "p", "q", "r", "s", "t", "u", "v", "w", "x", "y", "z">>

\* \w of the regex.
IsWord(c) ==
    \/ IsDigit(c)
    \/ c = "_"
    \/ \E i \in 1..26 : UpperCase[i] = c \/ LowerCase[i] = c

LowerChar(c) ==
    IF \E i \in 1..26 : UpperCase[i] = c
    THEN LowerCase[CHOOSE i \in 1..26 : UpperCase[i] = c]
    ELSE c

\* str.lower()
Lower(s) == [i \in 1..Len(s) |-> LowerChar(s[i])]

\* Length of the longest run of characters satisfying the test from 0-based
\* position a on.
RECURSIVE DigitRun(_, _)
DigitRun(s, a) == IF a < Len(s) /\ IsDigit(s[a + 1]) THEN 1 + DigitRun(s, a + 1) ELSE 0

RECURSIVE WordRun(_, _)
WordRun(s, a) == IF a < Len(s) /\ IsWord(s[a + 1]) THEN 1 + WordRun(s, a + 1) ELSE 0

CharAt(s, i) == IF i >= 0 /\ i < Len(s) THEN s[i + 1] ELSE ""

\* " ?\[" at 0-based position q: the position after the bracket, or -1.
BracketAt(s, q) ==
    IF CharAt(s, q) = " " /\ CharAt(s, q + 1) = "[" THEN q + 2
    ELSE IF CharAt(s, q) = "[" THEN q + 1
    ELSE -1

\* Smallest element of a non-empty set of integers, -1 for the empty set.
MinOf(S) == IF S = {} THEN -1 ELSE CHOOSE x \in S : \A y \in S : x <= y

\* "(.*?)\] !" from position b: the position of the first "] !", or -1.
CloseAt(s, b) ==
    MinOf({r \in b..(Len(s) - 3) : Slice(s, r, r + 3) = <<"]", " ", "!">>})

\* ",(.*?) ?\[(.*?)\] !" at p: the position q where the lazy type group
\* ends, or -1.
TypeEnd(s, p) ==
    IF CharAt(s, p) # "," THEN -1
    ELSE MinOf({q \in (p + 1)..Len(s) : BracketAt(s, q) >= 0 /\ CloseAt(s, BracketAt(s, q)) >= 0})

\* The match of
\*   ^(\d+),(\d+),(.*?)(?:,(.*?) ?\[| ?\[)(.*?)\] !(\w*(?: \w+)?).*$
\* on a raw line: lazy groups end at the first position from which the rest
\* matches, the alternative with a type is tried first, "." matches no
\* newline and "$" matches before a final newline.
HeaderMatch(line) ==
    LET text == IF line # <<>> /\ line[Len(line)] = "\n" THEN SubSeq(line, 1, Len(line) - 1) ELSE line
        n1 == DigitRun(text, 0)
        n2 == DigitRun(text, n1 + 1)
        p0 == n1 + n2 + 2
        prefix == /\ n1 > 0
                  /\ CharAt(text, n1) = ","
                  /\ n2 > 0
                  /\ CharAt(text, n1 + 1 + n2) = ","
                  /\ ~Contains(<<"\n">>, text)
        WithType(p) == TypeEnd(text, p) >= 0
        NoType(p) == BracketAt(text, p) >= 0 /\ CloseAt(text, BracketAt(text, p)) >= 0
        p == MinOf({x \in p0..Len(text) : WithType(x) \/ NoType(x)})
        q == TypeEnd(text, p)
        b == IF WithType(p) THEN BracketAt(text, q) ELSE BracketAt(text, p)
        r == CloseAt(text, b)
        w1 == WordRun(text, r + 3)
        w2 == IF CharAt(text, r + 3 + w1) = " " THEN WordRun(text, r + 4 + w1) ELSE 0
        iend == IF w2 > 0 THEN r + 4 + w1 + w2 ELSE r + 3 + w1
    IN  IF ~prefix \/ p < 0 THEN [ok |-> FALSE]
        ELSE [ok |-> TRUE,
              raw_line_id |-> Slice(text, 0, n1),
              key |-> Slice(text, p0, p),
              type |-> IF WithType(p) THEN Slice(text, p + 1, q) ELSE None,
              units |-> Slice(text, b, r),
              interval |-> Slice(text, r + 3, iend)]

Cumulative == <<"C", "u", "m", "u", "l", "a", "t", "i", "v", "e">>

Meter == <<"M", "e", "t", "e", "r">>

EachCall == <<"E", "a", "c", "h", " ", "C", "a", "l", "l">>

TimeStep == <<"T", "i", "m", "e", "S", "t", "e", "p">>

SystemPrefix == <<"S", "y", "s", "t", "e", "m", " ", "-", " ">>

\* An "Each Call" line that keeps the type the line gives.
PlainType(type) == type

\* type_ = "System - " + type_
EachCallType(type) == SystemPrefix \o type

\* The groups of a match after the meter and "Each Call" rewrites; no match
\* (None has no .group) raises AttributeError.
HeaderFields(m) ==
    LET meter == m.type = None
        type1 == IF meter THEN m.key ELSE m.type
        key == IF meter
               THEN (IF Contains(Cumulative, m.key) THEN Cumulative \o <<" ">> \o Meter ELSE Meter)
               ELSE m.key
        each == m.interval = EachCall
        type2 == IF each THEN EachCallType(type1) ELSE type1
        table == IF each THEN TimeStep ELSE m.interval
    IN  IF ~m.ok THEN Raise("AttributeError")
        ELSE Ok([line_id |-> DigitsVal(m.raw_line_id),
                 key |-> key,
                 type |-> type2,
                 units |-> m.units,
                 interval |-> Lower(table)])

\* process_header_line: (line_id, key, type, units, interval) of a dictionary
\* line.
process_header_line(line) == HeaderFields(HeaderMatch(line))

(***************************************************************************)
(* Header table.  A dict keeps insertion order and an assignment to an     *)
(* existing key keeps the key's place, so header[interval][id] is a        *)
(* sequence of entries [table, id, var] with at most one entry per         *)
(* (table, id).                                                            *)
(***************************************************************************)
Variable(table, key, type, units) ==
    [table |-> table, key |-> key, type |-> type, units |-> units]

\* header[interval][line_id] = Variable(interval, key, type_, units)
HeaderPut(header, table, line_id, var) ==
    IF \E k \in 1..Len(header) : header[k].table = table /\ header[k].id = line_id
    THEN [k \in 1..Len(header) |->
            IF header[k].table = table /\ header[k].id = line_id
            THEN [table |-> table, id |-> line_id, var |-> var]
            ELSE header[k]]
    ELSE Append(header, [table |-> table, id |-> line_id, var |-> var])

\* header.keys()
HeaderIntervals(header) == {header[k].table : k \in 1..Len(header)}

\* header[interval].keys()
HeaderIds(header, interval) ==
    {header[k].id : k \in {j \in 1..Len(header) : header[j].table = interval}}

\* header[interval][id]
HeaderVar(header, interval, id) ==
    header[CHOOSE k \in 1..Len(header) : header[k].table = interval /\ header[k].id = id].var

(***************************************************************************)
(* Values of the series.                                                   *)
(***************************************************************************)
\* numpy.nan, the missing sentinel.
NaN == [kind |-> "nan", neg |-> FALSE, ip |-> 0, fr |-> <<>>]

AsFloat(v) == [kind |-> "float", neg |-> v.neg, ip |-> v.ip, fr |-> v.fr]

AsInt(n) == [kind |-> "int", neg |-> n < 0, ip |-> IF n < 0 THEN 0 - n ELSE n, fr |-> <<>>]

\* One step of a peak series: nan until a result line gives its coordinates.
PeakMissing == [missing |-> TRUE, coords |-> <<>>]

Peak(coords) == [missing |-> FALSE, coords |-> coords]

\* peak_outputs of an environment: None when peaks are ignored.
PeaksNone == [none |-> TRUE, map |-> <<>>]

PeakIntervals == {D, M, A, RP}

CumulativeIntervals == {M, A, RP}

(***************************************************************************)
(* RawEsoData: the bins of one environment, initialised from its header.   *)
(***************************************************************************)
\* header.items(): the intervals the bins are made for.
BinIntervals(header) == HeaderIntervals(header)

\* RawEsoData(environment_name, header, ignore_peaks): empty dates, day and
\* cumulative-day sequences, and one empty series per id of the header.
RawEsoData(environment_name, header_ref, header, ignore_peaks) ==
    [environment_name |-> environment_name,
     header |-> header_ref,
     outputs |-> [i \in BinIntervals(header) |-> [v \in HeaderIds(header, i) |-> <<>>]],
     peak_outputs |->
        IF ignore_peaks THEN PeaksNone
        ELSE [none |-> FALSE,
              map |-> [i \in BinIntervals(header) \cap PeakIntervals |->
                          [v \in HeaderIds(header, i) |-> <<>>]]],
     dates |-> [i \in BinIntervals(header) |-> <<>>],
     cumulative_days |-> [i \in BinIntervals(header) \cap CumulativeIntervals |-> <<>>],
     days_of_week |-> [i \in BinIntervals(header) \ CumulativeIntervals |-> <<>>]]

\* A step that leaves every series as it is.
keep_outputs_step(outputs, interval) == outputs

\* initialize_next_outputs_step(interval): one nan more on every series.
initialize_next_outputs_step(outputs, interval) ==
    [outputs EXCEPT ![interval] = [v \in DOMAIN outputs[interval] |-> Append(outputs[interval][v], NaN)]]

\* A step that leaves every peak series as it is.
keep_peak_outputs_step(peak_outputs, interval) == peak_outputs

\* initialize_next_peak_outputs_step(interval)
initialize_next_peak_outputs_step(peak_outputs, interval) ==
    [peak_outputs EXCEPT !.map[interval] =
        [v \in DOMAIN peak_outputs.map[interval] |-> Append(peak_outputs.map[interval][v], PeakMissing)]]

\* series.append(value)
AppendLast(series, value) == Append(series, value)

\* series[-1] = value
SetLast(series, value) == [series EXCEPT ![Len(series)] = value]

(***************************************************************************)
(* Interval lines.                                                         *)
(***************************************************************************)
ENVIRONMENT_LINE == 1

TIMESTEP_OR_HOURLY_LINE == 2

DAILY_LINE == 3

MONTHLY_LINE == 4

RUNPERIOD_LINE == 5

ANNUAL_LINE == 6

EsoTimestamp(month, day, hour, end_minute) == <<month, day, hour, end_minute>>

\* data[-1]
Last(data) == data[Len(data)]

\* int(float(item)): the end minute cut to its integer part.
TruncatedMinute(v) == Truncate(v)

\* The integer an end-minute literal is stored as.
EndMinute(v) == RoundHalfUp(v)

\* parse_timestep_or_hourly_interval
\*   data = [Day of Simulation, Month, Day of Month, DST Indicator, Hour,
\*           StartMinute, EndMinute, DayType]
parse_timestep_or_hourly_interval(data) ==
    LET end_minute == EndMinute(ParseDecimal(data[7]).val)
        start == ParseFloat(data[6])
    IN  IF Len(data) < 7 THEN Raise("IndexError")
        ELSE IF ~ParseDecimal(data[7]).ok THEN Raise("InvalidOperation")
        ELSE IF ~ParseInt(data[2]).ok \/ ~ParseInt(data[3]).ok \/ ~ParseInt(data[5]).ok
             THEN Raise("ValueError")
        ELSE IF ~start.ok THEN Raise("ValueError")
        ELSE Ok([interval |-> IF start.val.ip = 0 /\ start.val.fr = <<>> /\ end_minute = 60
                              THEN H ELSE TS,
                 date |-> EsoTimestamp(ParseInt(data[2]).val, ParseInt(data[3]).val,
                                       ParseInt(data[5]).val, end_minute),
                 other |-> Strip(Last(data))])

\* parse_daily_interval
\*   data = [Cumulative Day of Simulation, Month, Day of Month, DST Indicator, DayType]
parse_daily_interval(data) ==
    IF Len(data) < 2 THEN Raise("IndexError")
    ELSE IF ~ParseInt(data[2]).ok THEN Raise("ValueError")
    ELSE IF Len(data) < 3 THEN Raise("IndexError")
    ELSE IF ~ParseInt(data[3]).ok THEN Raise("ValueError")
    ELSE Ok([interval |-> D,
             date |-> EsoTimestamp(ParseInt(data[2]).val, ParseInt(data[3]).val, 0, 0),
             other |-> Strip(Last(data))])

\* process_sub_monthly_interval_line: categories[line_id]()
process_sub_monthly_interval_line(line_id, data) ==
    IF line_id = TIMESTEP_OR_HOURLY_LINE THEN parse_timestep_or_hourly_interval(data)
    ELSE IF line_id = DAILY_LINE THEN parse_daily_interval(data)
    ELSE Raise("KeyError")

\* A cumulative-days entry: [n] for int(data[0]), [] for the None of an
\* Annual line.
Days(n) == <<n>>

NoDays == <<>>

\* parse_monthly_interval: data = [Cumulative Day of Simulation, Month]
parse_monthly_interval(data) ==
    IF Len(data) < 2 THEN Raise("IndexError")
    ELSE IF ~ParseInt(data[2]).ok THEN Raise("ValueError")
    ELSE IF ~ParseInt(data[1]).ok THEN Raise("ValueError")
    ELSE Ok([interval |-> M,
             date |-> EsoTimestamp(ParseInt(data[2]).val, 1, 0, 0),
             other |-> Days(ParseInt(data[1]).val)])

\* parse_runperiod_interval: data = [Cumulative Day of Simulation]
parse_runperiod_interval(data) ==
    IF Len(data) < 1 THEN Raise("IndexError")
    ELSE IF ~ParseInt(data[1]).ok THEN Raise("ValueError")
    ELSE Ok([interval |-> RP,
             date |-> EsoTimestamp(1, 1, 0, 0),
             other |-> Days(ParseInt(data[1]).val)])

\* parse_annual_interval: data = [Year]
parse_annual_interval(data) ==
    Ok([interval |-> A, date |-> EsoTimestamp(1, 1, 0, 0), other |-> NoDays])

\* process_monthly_plus_interval_line: categories[line_id]()
process_monthly_plus_interval_line(line_id, data) ==
    IF line_id = MONTHLY_LINE THEN parse_monthly_interval(data)
    ELSE IF line_id = RUNPERIOD_LINE THEN parse_runperiod_interval(data)
    ELSE IF line_id = ANNUAL_LINE THEN parse_annual_interval(data)
    ELSE Raise("KeyError")

(***************************************************************************)
(* read_body: one iteration of the loop on one raw line.                   *)
(*                                                                         *)
(* st holds what the iteration reads: highest_interval_id, ignore_peaks,   *)
(* header (the reference passed in), interval, all_raw_data and headers    *)
(* (the header objects that exist, by reference).  raw_outputs is the last *)
(* element of all_raw_data and is unbound while that list is empty.  An    *)
(* iteration yields a set of outcomes: more than one where the compiled    *)
(* code indexes a list without a bounds check.                             *)
(***************************************************************************)
Continue(st, interval, all_raw_data, headers) ==
    [exc |-> "none", brk |-> FALSE, interval |-> interval,
     all_raw_data |-> all_raw_data, headers |-> headers]

\* A sentinel after which the loop goes on to the next line.
Resume(st) ==
    [exc |-> "none", brk |-> FALSE, interval |-> st.interval,
     all_raw_data |-> st.all_raw_data, headers |-> st.headers]

\* break on the `End of Data` line: read_body leaves its loop.
Break(st) ==
    [exc |-> "none", brk |-> TRUE, interval |-> st.interval,
     all_raw_data |-> st.all_raw_data, headers |-> st.headers]

Throw(st, exc, interval, all_raw_data) ==
    [exc |-> exc, brk |-> FALSE, interval |-> interval,
     all_raw_data |-> all_raw_data, headers |-> st.headers]

\* boundscheck(False): an index outside a list is not checked by the
\* compiled module; a build that keeps the check raises IndexError.
Unchecked == {"Segfault", "IndexError"}

OutOfBounds(st) == {Throw(st, e, st.interval, st.all_raw_data) : e \in Unchecked}

\* header passed on as it is: the same object under the same reference.
SameObject(headers, ref) == [headers |-> headers, ref |-> ref]

\* deepcopy(header): a new header object with the same contents.
DeepCopy(headers, ref) == [headers |-> Append(headers, headers[ref]), ref |-> Len(headers) + 1]

\* line[0] as it stands in the file.
RawName(line) == line[1]

\* environment_name = line[0].strip()
EnvironmentName(line) == Strip(line[1])

\* raw_outputs = RawEsoData(environment_name, deepcopy(header), ignore_peaks)
\* all_raw_data.append(raw_outputs)
NewEnvironment(st, environment_name, copy) ==
    {Continue(st, st.interval,
              Append(st.all_raw_data,
                     RawEsoData(environment_name, copy.ref, copy.headers[copy.ref],
                                st.ignore_peaks)),
              copy.headers)}

\* line_id == ENVIRONMENT_LINE
EnvironmentLine(st, line) ==
    IF line = <<>> THEN OutOfBounds(st)
    ELSE NewEnvironment(st, EnvironmentName(line), DeepCopy(st.headers, st.header))

\* A raw_outputs that stays bound to the first environment of the list.
FirstEnvironment(environments) == IF environments = <<>> THEN 0 ELSE 1

\* raw_outputs: the local of read_body, bound by the latest environment
\* line to the RawEsoData it appended to the list; unbound (0) before.
CurrentEnvironment(environments) == Len(environments)

\* An interval line that leaves the day bins as they are.
KeepDays(bins, interval, value) == bins

\* raw_outputs.cumulative_days[interval].append(n_days) and
\* raw_outputs.days_of_week[interval].append(day)
AppendDays(bins, interval, value) == [bins EXCEPT ![interval] = Append(@, value)]

\* The bins after an interval line that process_*_interval_line turned
\* into r: (interval, date, day or n_days).
IntervalBins(st, line_id, r) ==
    LET step == r.val.interval
        n == CurrentEnvironment(st.all_raw_data)
        raw_outputs == st.all_raw_data[n]
        binned == IF line_id > DAILY_LINE
                  THEN [raw_outputs EXCEPT !.cumulative_days = AppendDays(@, step, r.val.other)]
                  ELSE [raw_outputs EXCEPT !.days_of_week = AppendDays(@, step, r.val.other)]
        dated == [binned EXCEPT !.dates[step] = Append(@, r.val.date)]
        stepped == [dated EXCEPT !.outputs = initialize_next_outputs_step(@, step)]
    IN  IF ~r.ok /\ r.exc = "ValueError"
        THEN {Throw(st, "InvalidLineSyntax", st.interval, st.all_raw_data)}
        ELSE IF ~r.ok THEN {Throw(st, r.exc, st.interval, st.all_raw_data)}
        ELSE IF n = 0 THEN {Throw(st, "UnboundLocalError", step, st.all_raw_data)}
        ELSE IF step \notin DOMAIN raw_outputs.dates
             THEN {Throw(st, "KeyError", step, st.all_raw_data)}
        ELSE IF ~st.ignore_peaks /\ line_id >= DAILY_LINE
             THEN {Continue(st, step,
                            [st.all_raw_data EXCEPT ![n] =
                                [stepped EXCEPT !.peak_outputs =
                                    initialize_next_peak_outputs_step(@, step)]],
                            st.headers)}
        ELSE {Continue(st, step, [st.all_raw_data EXCEPT ![n] = stepped], st.headers)}

\* 1 < line_id <= highest_interval_id
IntervalLine(st, line_id, line) ==
    IntervalBins(st, line_id,
                 IF line_id > DAILY_LINE
                 THEN process_monthly_plus_interval_line(line_id, line)
                 ELSE process_sub_monthly_interval_line(line_id, line))

\* [float(i) if "." in i else int(i) for i in line[1:]]
PeakField(i) ==
    IF Contains(<<".">>, i)
    THEN [ok |-> ParseFloat(i).ok, val |-> AsFloat(ParseFloat(i).val)]
    ELSE [ok |-> ParseInt(i).ok, val |-> AsInt(ParseInt(i).val)]

PeakFields(line) == [k \in 1..(Len(line) - 1) |-> PeakField(line[k + 1])]

\* A result line always written to the TimeStep series.
TimeStepInterval(st) == TS

\* The interval whose series a result line is written to: the local
\* `interval`, as the last interval line left it.
ResultInterval(st) == st.interval

\* raw_outputs.outputs[interval][line_id][-1] = res, then the peak.
StoreResult(st, line_id, interval, res, peak_res) ==
    LET n == CurrentEnvironment(st.all_raw_data)
        raw_outputs == st.all_raw_data[n]
        stored == [raw_outputs EXCEPT !.outputs[interval][line_id] = SetLast(@, AsFloat(res.val))]
    IN  IF ~res.ok THEN {Throw(st, "InvalidLineSyntax", st.interval, st.all_raw_data)}
        ELSE IF n = 0 THEN {Throw(st, "UnboundLocalError", st.interval, st.all_raw_data)}
        ELSE IF interval \notin DOMAIN raw_outputs.outputs
             THEN {Throw(st, "KeyError", st.interval, st.all_raw_data)}
        ELSE IF line_id \notin DOMAIN raw_outputs.outputs[interval]
             THEN {Throw(st, "KeyError", st.interval, st.all_raw_data)}
        ELSE IF raw_outputs.outputs[interval][line_id] = <<>> THEN OutOfBounds(st)
        ELSE IF st.ignore_peaks \/ interval \notin PeakIntervals
             THEN {Continue(st, st.interval, [st.all_raw_data EXCEPT ![n] = stored], st.headers)}
        ELSE IF \E k \in 1..Len(peak_res) : ~peak_res[k].ok
             THEN {Throw(st, "InvalidLineSyntax", st.interval, [st.all_raw_data EXCEPT ![n] = stored])}
        ELSE {Continue(st, st.interval,
                       [st.all_raw_data EXCEPT ![n] =
                           [stored EXCEPT !.peak_outputs.map[interval][line_id] =
                               SetLast(@, Peak([k \in 1..Len(peak_res) |-> peak_res[k].val]))]],
                       st.headers)}

\* line_id > highest_interval_id
ResultLine(st, line_id, line) ==
    IF line = <<>> THEN OutOfBounds(st)
    ELSE StoreResult(st, line_id, ResultInterval(st), ParseFloat(line[1]), PeakFields(line))

EndOfData == <<"E", "n", "d", " ", "o", "f", " ", "D", "a", "t", "a">>

\* Every id up to the Annual one taken for a standard line.
IsStandardId(st, line_id) == line_id <= ANNUAL_LINE

\* if line_id <= highest_interval_id
IsIntervalId(st, line_id) == line_id <= st.highest_interval_id

\* The branches of the loop body; the except branch when int() raised
\* ValueError.
Distribute(st, raw_line, id, line) ==
    IF ~id.ok
    THEN IF Contains(EndOfData, raw_line) THEN {Break(st)}
         ELSE IF raw_line = <<"\n">>
              THEN {Throw(st, "BlankLineError", st.interval, st.all_raw_data)}
         ELSE {Throw(st, "InvalidLineSyntax", st.interval, st.all_raw_data)}
    ELSE IF IsIntervalId(st, id.val)
         THEN IF id.val = ENVIRONMENT_LINE THEN EnvironmentLine(st, line)
              ELSE IntervalLine(st, id.val, line)
    ELSE ResultLine(st, id.val, line)

\* line_id = int(split_line[0]); line = split_line[1:]
SplitLine(st, raw_line, split_line) ==
    Distribute(st, raw_line, ParseInt(split_line[1]), Tail(split_line))

\* The body of the while loop of read_body for the pulled raw_line.
read_body_line(st, raw_line) == SplitLine(st, raw_line, Split(raw_line, ","))

(***************************************************************************)
(* Search index and duplicate pruning.                                     *)
(***************************************************************************)
\* header.items() then variables.items(): interval by interval, each in
\* insertion order.
RECURSIVE HeaderItems(_)
HeaderItems(header) ==
    IF header = <<>> THEN <<>>
    ELSE LET i == header[1].table
         IN  SelectSeq(header, LAMBDA e : e.table = i)
                \o HeaderItems(SelectSeq(header, LAMBDA e : e.table # i))

\* duplicates[id_] = variable: a dict from id to one Variable.
DuplicatesPut(duplicates, id, var) ==
    IF \E k \in 1..Len(duplicates) : duplicates[k].id = id
    THEN [k \in 1..Len(duplicates) |->
            IF duplicates[k].id = id THEN [id |-> id, v |-> var] ELSE duplicates[k]]
    ELSE Append(duplicates, [id |-> id, v |-> var])

\* Insertion into the index: a Variable already present is a duplicate, the
\* first id keeps its place.
RECURSIVE Insert(_, _, _)
Insert(items, index, duplicates) ==
    IF items = <<>> THEN duplicates
    ELSE IF items[1].var \in index
         THEN Insert(Tail(items), index, DuplicatesPut(duplicates, items[1].id, items[1].var))
         ELSE Insert(Tail(items), index \cup {items[1].var}, duplicates)

\* Tree.populate_tree(header): the duplicates map.
populate_tree(header) == Insert(HeaderItems(header), {}, <<>>)

\* A del that drops the id from the variables of every interval.
DelFromEveryTable(header, table, id) == SelectSeq(header, LAMBDA e : e.id # id)

\* del dct[v.table][id_] on header, KeyError suppressed.
DelHeader(header, table, id) ==
    SelectSeq(header, LAMBDA e : ~(e.table = table /\ e.id = id))

\* del dct[v.table][id_] on outputs or peak outputs, KeyError suppressed.
DelSeries(dct, table, id) ==
    IF table \in DOMAIN dct /\ id \in DOMAIN dct[table]
    THEN [dct EXCEPT ![table] = [v \in DOMAIN dct[table] \ {id} |-> dct[table][v]]]
    ELSE dct

\* [header, outputs]: the dicts of remove_duplicates before peak outputs
\* were pruned too.
HeaderAndOutputs == {"header", "outputs"}

\* The dicts remove_duplicates goes through: [header, outputs, peak_outputs].
PrunedDicts == {"header", "outputs", "peak_outputs"}

\* remove_duplicates(duplicates, header, outputs, peak_outputs)
RECURSIVE remove_duplicates(_, _, _, _)
remove_duplicates(duplicates, header, outputs, peak_outputs) ==
    IF duplicates = <<>>
    THEN [header |-> header, outputs |-> outputs, peak_outputs |-> peak_outputs]
    ELSE LET id_ == duplicates[1].id
             v == duplicates[1].v
             peaks == ~peak_outputs.none /\ DOMAIN peak_outputs.map # {}
         IN  remove_duplicates(
                Tail(duplicates),
                IF "header" \in PrunedDicts /\ header # <<>>
                THEN DelHeader(header, v.table, id_) ELSE header,
                IF "outputs" \in PrunedDicts /\ DOMAIN outputs # {}
                THEN DelSeries(outputs, v.table, id_) ELSE outputs,
                IF "peak_outputs" \in PrunedDicts /\ peaks
                THEN [peak_outputs EXCEPT !.map = DelSeries(@, v.table, id_)]
                ELSE peak_outputs)

\* del dct[v.table][id_] for dct in [header, outputs, peak_outputs], each
\* under `if dct`: KeyError when one of the dicts gone through lacks
\* dct[table][id].
DelRaises(header, outputs, peak_outputs, table, id) ==
    IF \/ /\ "header" \in PrunedDicts
          /\ header # <<>>
          /\ ~\E k \in 1..Len(header) : header[k].table = table /\ header[k].id = id
       \/ /\ "outputs" \in PrunedDicts
          /\ DOMAIN outputs # {}
          /\ ~(table \in DOMAIN outputs /\ id \in DOMAIN outputs[table])
       \/ /\ "peak_outputs" \in PrunedDicts
          /\ ~peak_outputs.none
          /\ DOMAIN peak_outputs.map # {}
          /\ ~(table \in DOMAIN peak_outputs.map /\ id \in DOMAIN peak_outputs.map[table])
    THEN "KeyError" ELSE "none"

\* A block without contextlib.suppress: what it raises leaves it.
Unsuppressed(exc) == exc

\* with contextlib.suppress(KeyError): a KeyError does not leave the block.
Suppressed(exc) == IF exc = "KeyError" THEN "none" ELSE exc

\* What leaves remove_duplicates(duplicates, header, outputs, peak_outputs):
\* the ids of the duplicates map differ, so no del of the loop changes
\* what another one finds.
RemoveDuplicatesRaises(duplicates, header, outputs, peak_outputs) ==
    IF \E k \in 1..Len(duplicates) :
          Suppressed(DelRaises(header, outputs, peak_outputs,
                               duplicates[k].v.table, duplicates[k].id)) # "none"
    THEN "KeyError" ELSE "none"

(***************************************************************************)
(* Input lines.                                                            *)
(***************************************************************************)
\* Statement lines: E+ 8.8.0, E+ 8.9.0 and a line that is no statement.
StatementLines == <<
    <<"P", ",", "E", ",", " ", "V", "e", "r", "s", "i", "o", "n", " ", "8", ".", "8", ".", "0", "-", "4", ",", " ", "Y", "M", "D", "=", "2", "0", "2", "0", ".", "0", "5", ".", "1", "4", " ", "1", "4", ":", "2", "2", "\n">>,
    <<"P", ",", "E", ",", " ", "V", "e", "r", "s", "i", "o", "n", " ", "8", ".", "9", ".", "0", "-", "4", ",", " ", "Y", "M", "D", "=", "2", "0", "2", "0", ".", "0", "5", ".", "1", "4", " ", "1", "4", ":", "2", "2", "\n">>,
    <<"x", "\n">>
>>

\* The data dictionary: a file declares a prefix of these lines.
DictionaryLines == <<
    <<"8", ",", "1", ",", "E", ",", "T", " ", "[", "C", "]", " ", "!", "T", "i", "m", "e", "S", "t", "e", "p", "\n">>,
    <<"7", ",", "1", ",", "E", ",", "T", " ", "[", "C", "]", " ", "!", "T", "i", "m", "e", "S", "t", "e", "p", "\n">>,
    <<"9", ",", "7", ",", "E", ",", "T", " ", "[", "C", "]", " ", "!", "D", "a", "i", "l", "y", " ", "[", "V", "]", "\n">>,
    <<"7", ",", "7", ",", "E", ",", "T", " ", "[", "C", "]", " ", "!", "D", "a", "i", "l", "y", "\n">>,
    <<"6", ",", "1", ",", "E", ",", "T", " ", "[", "C", "]", " ", "!", "T", "i", "m", "e", "S", "t", "e", "p", "\n">>,
    <<"1", "0", ",", "1", ",", "E", ",", "T", " ", "[", "C", "]", " ", "!", "A", "n", "n", "u", "a", "l", "\n">>,
    <<"1", "1", ",", "1", ",", "E", ",", "T", " ", "[", "C", "]", " ", "!", "M", "o", "n", "t", "h", "l", "y", "\n">>,
    <<"1", "2", ",", "1", ",", "E", ",", "T", " ", "[", "C", "]", " ", "!", "E", "a", "c", "h", " ", "C", "a", "l", "l", "\n">>,
    <<"1", "3", ",", "1", ",", "E", ",", "T", " ", "[", "C", "]", " ", "!", "H", "o", "u", "r", "l", "y", "\n">>
>>

\* Lines that end the dictionary: the sentinel, a blank line, a stray line.
HeaderEndLines == <<
    <<"E", "n", "d", " ", "o", "f", " ", "D", "a", "t", "a", " ", "D", "i", "c", "t", "i", "o", "n", "a", "r", "y", "\n">>,
    <<"\n">>,
    <<"x", "\n">>
>>

\* Body lines: two environment markers, a TimeStep and a Daily marker,
\* results for ids 7 and 9, a line with id 6, the sentinel, a blank line
\* and a stray line; then a TimeStep marker whose end minute and a Daily
\* marker whose month are no numbers, results whose value and whose peak
\* field are no numbers, a Monthly marker, and markers with id 2 whose end
\* minute is 59.999999 or 29.5 after start minute 0, or 60 after start
\* minute 45.
BodyLines == <<
    <<"1", ",", " ", "A", "\n">>,
    <<"1", ",", "B", " ", "\n">>,
    <<"2", ",", "1", ",", "1", ",", "1", ",", "0", ",", "1", ",", "0", ",", "3", "0", ",", "M", "o", "n", "\n">>,
    <<"3", ",", "1", ",", "1", ",", "1", ",", "0", ",", "M", "o", "n", "\n">>,
    <<"7", ",", "2", "1", ".", "5", "\n">>,
    <<"7", ",", "3", "\n">>,
    <<"9", ",", "4", ".", "5", ",", "1", ",", "2", ".", "5", "\n">>,
    <<"6", ",", "1", "\n">>,
    <<"E", "n", "d", " ", "o", "f", " ", "D", "a", "t", "a", "\n">>,
    <<"\n">>,
    <<"x", "\n">>,
    <<"2", ",", "1", ",", "1", ",", "1", ",", "0", ",", "1", ",", "0", ",", "x", ",", "M", "o", "n", "\n">>,
    <<"3", ",", "1", ",", "x", ",", "1", ",", "0", ",", "M", "o", "n", "\n">>,
    <<"7", ",", "x", "\n">>,
    <<"9", ",", "4", ".", "5", ",", "x", ",", "2", ".", "5", "\n">>,
    <<"4", ",", "3", "1", ",", " ", "1", "\n">>,
    <<"2", ",", "1", ",", "1", ",", "1", ",", "0", ",", "1", ",", "0", ".", "0", "0", ",", "5", "9", ".", "9", "9", "9", "9", "9", "9", ",", "M", "o", "n", "\n">>,
    <<"2", ",", "1", ",", "1", ",", "1", ",", "0", ",", "1", ",", "0", ".", "0", "0", ",", "2", "9", ".", "5", ",", "M", "o", "n", "\n">>,
    <<"2", ",", "1", ",", "1", ",", "1", ",", "0", ",", "1", ",", "4", "5", ".", "0", "0", ",", "6", "0", ".", "0", "0", ",", "M", "o", "n", "\n">>
>>

\* Body lines a file holds before the line that ends read_body.
MaxBodyLines == 4


\* Lines a file holds after the line that ends read_body.
MaxTrailingLines == 1

\* logger.CHUNK_SIZE: the lines between two ticks of the progress logger.
CHUNK_SIZE == 4

(***************************************************************************)
(* The parse of one file as a state machine.                               *)
(*                                                                         *)
(*   pc                     where process_eso_file is: "statement",        *)
(*                          "preamble", "header", "body" (the next line is *)
(*                          pulled there), "index" (read_file has returned *)
(*                          all_raw_data), "done", "failed"                *)
(*   error                  the exception that ended the call, or "none"   *)
(*   message                the raw line the exception carries, or None    *)
(*   file                   the handle process_eso_file opened: "open" or  *)
(*                          "closed"                                       *)
(*   version, last_standard_item_id, skipped     locals of read_file       *)
(*   headers                the header objects that exist, by reference;   *)
(*                          headers[1] is the one read_header builds       *)
(*   highest_interval_id, ignore_peaks, interval, all_raw_data             *)
(*                          parameters and locals of read_body             *)
(*   pulled, counter        the locals raw_line and counter of read_header *)
(*                          and read_body; raw_line is None before the     *)
(*                          first line                                     *)
(*   line_counter, progress, max_progress        fields of the logger;     *)
(*                          max_progress depends on the length of the      *)
(*                          file, which is known once its last line has    *)
(*                          been read, and is 0 until then                 *)
(*   cancel                 cancellation has been requested of the logger  *)
(*   eof                    next(file) has found the file exhausted        *)
(*   processed              environments indexed and pruned so far         *)
(*   dictionary, body       the dictionary lines (a count) and the body    *)
(*                          lines (indices of BodyLines) the parse has     *)
(*                          taken so far: the file as read up to now       *)
(***************************************************************************)
VARIABLES pc, error, message, file, version, last_standard_item_id, skipped,
          headers, highest_interval_id, ignore_peaks, interval, all_raw_data,
          pulled, counter, line_counter, progress, max_progress, cancel,
          eof, processed, dictionary, body, chunk_size

vars == <<pc, error, message, file, version, last_standard_item_id, skipped,
          headers, highest_interval_id, ignore_peaks, interval, all_raw_data,
          pulled, counter, line_counter, progress, max_progress, cancel,
          eof, processed, dictionary, body, chunk_size>>

\* The fields of the logger that change; chunk_size is its CHUNK_SIZE, as
\* read_header and read_body read it.
logger == <<line_counter, progress, max_progress, cancel>>

\* with open(file_path, "r") as file: the state when read_file is called.
Init ==
    /\ pc = "statement"
    /\ error = "none"
    /\ message = None
    /\ file = "open"
    /\ version = 0
    /\ last_standard_item_id = 0
    /\ skipped = 0
    /\ headers = <<>>
    /\ highest_interval_id = 0
    /\ ignore_peaks \in BOOLEAN
    /\ interval = None
    /\ all_raw_data = <<>>
    /\ pulled = None
    /\ counter = 0
    /\ line_counter = 0
    /\ progress = 0
    /\ max_progress = 0
    /\ cancel = FALSE
    /\ eof = FALSE
    /\ processed = 0
    /\ dictionary = 0
    /\ body = <<>>
    /\ chunk_size = CHUNK_SIZE

\* The handle left as it is when an exception passes.
Kept(exc) == file

\* The handle after an exception has left the with block: __exit__ has
\* closed it.  A process that died of a fault ran no __exit__.
Released(exc) == IF exc = "Segfault" THEN file ELSE "closed"

\* An exception that passes through process_eso_file as it is.
Propagated(exc) == exc

\* except StopIteration: raise IncompleteFile(f"File is not complete!")
Reraised(exc) == IF exc = "StopIteration" THEN "IncompleteFile" ELSE exc

\* The exception is noted and what was built so far is handed back.
ReturnBuilt(exc) ==
    /\ pc' = "index"
    /\ error' = Reraised(exc)
    /\ file' = Released(exc)

\* An exception leaves process_eso_file.
Fail(exc) ==
    /\ pc' = "failed"
    /\ error' = Reraised(exc)
    /\ file' = Released(exc)

\* r is what process_statement_line gave for the first line.
Statement(r) ==
    IF r.ok
    THEN /\ pc' = "preamble"
         /\ version' = r.val
         /\ last_standard_item_id' = LastStandardItemId(r.val)
         /\ line_counter' = line_counter + 1
         /\ UNCHANGED <<error, file>>
    ELSE /\ Fail(r.exc)
         /\ UNCHANGED <<version, last_standard_item_id, line_counter>>

\* version, timestamp = process_statement_line(next(file))
\* logger.line_counter += 1
\* last_standard_item_id = 6 if version >= 890 else 5
ReadStatement ==
    /\ pc = "statement"
    /\ \E n \in 1..Len(StatementLines) :
          Statement(process_statement_line(StatementLines[n]))
    /\ UNCHANGED <<chunk_size, message, skipped, headers, highest_interval_id, ignore_peaks,
                   interval, all_raw_data, pulled, counter, progress, max_progress,
                   cancel, eof, processed, dictionary, body>>

\* for _ in range(last_standard_item_id)
PreambleLines(h) == h

\* next(file); logger.line_counter += 1 in the loop over the standard
\* reporting intervals.
SkipPreambleLine ==
    /\ pc = "preamble"
    /\ skipped < PreambleLines(last_standard_item_id)
    /\ skipped' = skipped + 1
    /\ line_counter' = line_counter + 1
    /\ UNCHANGED <<chunk_size, pc, error, message, file, version, last_standard_item_id, headers,
                   highest_interval_id, ignore_peaks, interval, all_raw_data,
                   pulled, counter, progress, max_progress, cancel,
                   eof, processed, dictionary, body>>

\* header = read_header(file, logger): header = defaultdict(...)
\* counter = logger.line_counter % logger.CHUNK_SIZE
CallReadHeader ==
    /\ pc = "preamble"
    /\ skipped = PreambleLines(last_standard_item_id)
    /\ pc' = "header"
    /\ headers' = << <<>> >>
    /\ counter' = line_counter % chunk_size
    /\ UNCHANGED <<chunk_size, error, message, file, version, last_standard_item_id, skipped,
                   highest_interval_id, ignore_peaks, interval, all_raw_data,
                   pulled, logger, eof, processed, dictionary, body>>

\* logger.increment_progress(), when no cancellation has been requested.
increment_progress(p) == p + 1

\* counter += 1; if counter == chunk_size
AtChunkBoundary == counter + 1 = chunk_size

\* A logger whose tick never raises.
Unheeded == FALSE

\* The tick of a cancelled logger raises Cancelled.
CancelledTick == AtChunkBoundary /\ cancel

\* counter, logger.progress and logger.line_counter after
\*     counter += 1
\*     if counter == chunk_size:
\*         logger.increment_progress()
\*         logger.line_counter += counter
\*         counter = 0
TickedCounter == IF AtChunkBoundary THEN 0 ELSE counter + 1

TickedProgress == IF AtChunkBoundary THEN increment_progress(progress) ELSE progress

TickedLineCounter == IF AtChunkBoundary THEN line_counter + counter + 1 ELSE line_counter

\* The tick made no exception: the loop body goes on with the line.
Tick ==
    /\ counter' = TickedCounter
    /\ progress' = TickedProgress
    /\ line_counter' = TickedLineCounter

\* logger.increment_progress() raises Cancelled: the line just pulled is
\* never looked at, and the model leaves it in the file.
Cancelled ==
    /\ Fail("Cancelled")
    /\ message' = None
    /\ counter' = counter + 1
    /\ UNCHANGED <<pulled, line_counter, progress>>

EndOfDataDictionary ==
    <<"E", "n", "d", " ", "o", "f", " ", "D", "a", "t", "a", " ",
      "D", "i", "c", "t", "i", "o", "n", "a", "r", "y">>

\* The lines the file can hold after `dictionary` dictionary lines.
HeaderInputs ==
    {HeaderEndLines[k] : k \in 1..Len(HeaderEndLines)}
        \cup {DictionaryLines[k] : k \in {dictionary + 1} \cap 1..Len(DictionaryLines)}

\* read_body(file, last_standard_item_id, header, ignore_peaks, logger)
HighestIntervalIdArg(h) == h

\* read_header ends with logger.line_counter += counter and read_body
\* starts with counter = logger.line_counter % logger.CHUNK_SIZE.
CallReadBody(lines) ==
    /\ pc' = "body"
    /\ highest_interval_id' = HighestIntervalIdArg(last_standard_item_id)
    /\ line_counter' = lines
    /\ counter' = lines % chunk_size
    /\ progress' = TickedProgress

\* Every line that is not the sentinel taken for malformed.
AlwaysInvalid(raw_line) == "InvalidLineSyntax"

\* The exception of the except branch of read_header for a line that is
\* not the sentinel.
HeaderError(raw_line) ==
    IF raw_line = <<"\n">> THEN "BlankLineError" ELSE "InvalidLineSyntax"

\* The raw line an exception of the parser carries in its message.
Carried(exc, raw_line) == IF exc = "InvalidLineSyntax" THEN raw_line ELSE None

\* r is what process_header_line gave for raw_line: the variable is put
\* into the header, or the except branch is taken.
HeaderLine(raw_line, r) ==
    IF r.ok
    THEN /\ headers' = [headers EXCEPT ![1] =
                           HeaderPut(@, r.val.interval, r.val.line_id,
                                     Variable(r.val.interval, r.val.key, r.val.type,
                                              r.val.units))]
         /\ dictionary' = dictionary + 1
         /\ Tick
         /\ UNCHANGED <<pc, error, message, file, highest_interval_id>>
    ELSE IF Contains(EndOfDataDictionary, raw_line)
    THEN /\ CallReadBody(TickedLineCounter + TickedCounter)
         /\ UNCHANGED <<error, message, file, headers, dictionary>>
    ELSE /\ Fail(HeaderError(raw_line))
         /\ message' = Carried(HeaderError(raw_line), raw_line)
         /\ Tick
         /\ UNCHANGED <<headers, dictionary, highest_interval_id>>

\* One iteration of the loop of read_header; on the sentinel read_header
\* returns and read_file calls read_body.
ReadHeaderLine ==
    /\ pc = "header"
    /\ IF CancelledTick
       THEN /\ Cancelled
            /\ UNCHANGED <<headers, dictionary, highest_interval_id>>
       ELSE \E raw_line \in HeaderInputs :
               /\ pulled' = raw_line
               /\ HeaderLine(raw_line, process_header_line(raw_line))
    /\ UNCHANGED <<chunk_size, version, last_standard_item_id, skipped, ignore_peaks, interval,
                   all_raw_data, max_progress, cancel, eof, processed, body>>

\* An iteration that collects peaks whatever the caller asked for.
PeaksState ==
    [highest_interval_id |-> highest_interval_id, ignore_peaks |-> FALSE,
     header |-> 1, interval |-> interval, all_raw_data |-> all_raw_data,
     headers |-> headers]

\* What an iteration of read_body reads.
BodyState ==
    [highest_interval_id |-> highest_interval_id, ignore_peaks |-> ignore_peaks,
     header |-> 1, interval |-> interval, all_raw_data |-> all_raw_data,
     headers |-> headers]

\* The line that ends read_body normally.
ClosingLines == {n \in 1..Len(BodyLines) : Contains(EndOfData, BodyLines[n])}

\* The lines pulled from the file when read_body has pulled one more.
LinesPulled == 1 + skipped + dictionary + 1 + Len(body) + 1

\* count_lines: the lines of the file, and one.
count_lines(lines) == lines + 1

\* maximum = n_lines // logger.CHUNK_SIZE
Maximum(n_lines) == n_lines \div chunk_size

\* After the loop of read_body, with p ticks made so far:
\*     if logger.progress != logger.max_progress:
\*         logger.increment_progress()
\*     return all_raw_data
\* and the with block of process_eso_file closes the file.
Return(p, maximum) ==
    /\ max_progress' = maximum
    /\ IF p # maximum /\ cancel
       THEN /\ Fail("Cancelled")
            /\ progress' = p
       ELSE /\ pc' = "index"
            /\ error' = "none"
            /\ file' = "closed"
            /\ progress' = IF p # maximum THEN increment_progress(p) ELSE p

\* out is how the iteration on line n ended: the loop goes on, read_body
\* leaves the loop, or an exception leaves it.
BodyLine(n, out) ==
    /\ body' = Append(body, n)
    /\ pulled' = BodyLines[n]
    /\ interval' = out.interval
    /\ all_raw_data' = out.all_raw_data
    /\ headers' = out.headers
    /\ counter' = TickedCounter
    /\ message' = Carried(out.exc, BodyLines[n])
    /\ IF out.exc # "none"
       THEN /\ Fail(out.exc)
            /\ progress' = TickedProgress
            /\ line_counter' = TickedLineCounter
            /\ UNCHANGED max_progress
       ELSE IF out.brk
       THEN /\ line_counter' = TickedLineCounter + TickedCounter
            /\ \E t \in 0..MaxTrailingLines :
                  Return(TickedProgress, Maximum(count_lines(LinesPulled + t)))
       ELSE /\ progress' = TickedProgress
            /\ line_counter' = TickedLineCounter
            /\ UNCHANGED <<pc, error, file, max_progress>>

\* A loop whose tick takes the place of the loop body: the line pulled at
\* a chunk boundary is not looked at.
SkippedAtTick(st, raw_line) ==
    IF AtChunkBoundary
    THEN {Continue(st, st.interval, st.all_raw_data, st.headers)}
    ELSE read_body_line(st, raw_line)

\* The tick is followed by the loop body: every line pulled is looked at,
\* the one pulled at a chunk boundary too.
Dispatched(st, raw_line) == read_body_line(st, raw_line)

\* One iteration of the loop of read_body.
ReadBodyLine ==
    /\ pc = "body"
    /\ IF CancelledTick
       THEN /\ Cancelled
            /\ UNCHANGED <<body, interval, all_raw_data, headers, max_progress>>
       ELSE \E n \in 1..Len(BodyLines) :
               /\ Len(body) < MaxBodyLines \/ n \in ClosingLines
               /\ \E out \in Dispatched(BodyState, BodyLines[n]) : BodyLine(n, out)
    /\ UNCHANGED <<chunk_size, version, last_standard_item_id, skipped, highest_interval_id,
                   ignore_peaks, cancel, eof, processed, dictionary>>

\* A loop that catches the StopIteration of next(file) and goes on.
CaughtInLoop(exc) == UNCHANGED <<pc, error, file>>

\* No handler of read_file, read_header or read_body catches the
\* StopIteration of next(file): it leaves them all.
Uncaught(exc) == Fail(exc)

\* next(file) on an exhausted file: StopIteration, which process_eso_file
\* turns into IncompleteFile.  The file has no line after those read.
Exhausted ==
    /\ \/ pc \in {"statement", "header", "body"}
       \/ pc = "preamble" /\ skipped < PreambleLines(last_standard_item_id)
    /\ eof' = TRUE
    /\ Uncaught("StopIteration")
    /\ UNCHANGED <<chunk_size, message, version, last_standard_item_id, skipped, headers,
                   highest_interval_id, ignore_peaks, interval, all_raw_data,
                   pulled, counter, logger, processed, dictionary, body>>

\* Whoever holds the logger asks for the parse to be cancelled, at any
\* time while process_eso_file runs.
RequestCancel ==
    /\ pc \in {"statement", "preamble", "header", "body"}
    /\ ~cancel
    /\ cancel' = TRUE
    /\ UNCHANGED <<chunk_size, pc, error, message, file, version, last_standard_item_id, skipped,
                   headers, highest_interval_id, ignore_peaks, interval, all_raw_data,
                   pulled, counter, line_counter, progress, max_progress,
                   eof, processed, dictionary, body>>

\* The dicts of environment n after remove_duplicates.
Pruned(n, raw_outputs, pruned) ==
    /\ headers' = [headers EXCEPT ![raw_outputs.header] = pruned.header]
    /\ all_raw_data' = [all_raw_data EXCEPT ![n].outputs = pruned.outputs,
                                            ![n].peak_outputs = pruned.peak_outputs]
    /\ processed' = n

\* remove_duplicates(duplicates, ...) on environment n: its dicts are
\* pruned, or the exception that left remove_duplicates ends the run.
Prune(n, raw_outputs, duplicates) ==
    IF RemoveDuplicatesRaises(duplicates, headers[raw_outputs.header],
                              raw_outputs.outputs, raw_outputs.peak_outputs) = "none"
    THEN /\ Pruned(n, raw_outputs,
                   remove_duplicates(duplicates, headers[raw_outputs.header],
                                     raw_outputs.outputs, raw_outputs.peak_outputs))
         /\ UNCHANGED <<pc, error>>
    ELSE /\ pc' = "failed"
         /\ error' = RemoveDuplicatesRaises(duplicates, headers[raw_outputs.header],
                                            raw_outputs.outputs, raw_outputs.peak_outputs)
         /\ UNCHANGED <<headers, all_raw_data, processed>>

\* The next environment of the returned list: the search index is built
\* from its header and the duplicates are removed from its header, outputs
\* and peak outputs.
ProcessEnvironment ==
    /\ pc = "index"
    /\ processed < Len(all_raw_data)
    /\ Prune(processed + 1, all_raw_data[processed + 1],
             populate_tree(headers[all_raw_data[processed + 1].header]))
    /\ UNCHANGED <<chunk_size, message, file, version, last_standard_item_id, skipped,
                   highest_interval_id, ignore_peaks, interval, pulled, counter,
                   logger, eof, dictionary, body>>

\* Every environment has been emitted.
Finish ==
    /\ pc = "index"
    /\ processed = Len(all_raw_data)
    /\ pc' = "done"
    /\ UNCHANGED <<chunk_size, error, message, file, version, last_standard_item_id, skipped,
                   headers, highest_interval_id, ignore_peaks, interval, all_raw_data,
                   pulled, counter, logger, eof, processed, dictionary, body>>

Next ==
    \/ ReadStatement
    \/ SkipPreambleLine
    \/ CallReadHeader
    \/ ReadHeaderLine
    \/ ReadBodyLine
    \/ Exhausted
    \/ RequestCancel
    \/ ProcessEnvironment
    \/ Finish

Spec == Init /\ [][Next]_vars

\* The largest line_counter and progress of a logger handed to read_file
\* that has been in use before.
MaxSinkStart == 1

\* read_file called, to collect peaks too, with a logger in any state: its
\* CHUNK_SIZE, the lines and the ticks it has counted so far.
SinkInit ==
    /\ pc = "statement"
    /\ error = "none"
    /\ message = None
    /\ file = "open"
    /\ version = 0
    /\ last_standard_item_id = 0
    /\ skipped = 0
    /\ headers = <<>>
    /\ highest_interval_id = 0
    /\ ignore_peaks = FALSE
    /\ interval = None
    /\ all_raw_data = <<>>
    /\ pulled = None
    /\ counter = 0
    /\ line_counter \in 0..MaxSinkStart
    /\ progress \in 0..MaxSinkStart
    /\ max_progress = 0
    /\ cancel = FALSE
    /\ eof = FALSE
    /\ processed = 0
    /\ dictionary = 0
    /\ body = <<>>
    /\ chunk_size \in (CHUNK_SIZE - 1)..CHUNK_SIZE

\* The steps of a run whose logger is never asked to cancel.
SinkNext ==
    \/ ReadStatement
    \/ SkipPreambleLine
    \/ CallReadHeader
    \/ ReadHeaderLine
    \/ ReadBodyLine
    \/ Exhausted
    \/ ProcessEnvironment
    \/ Finish

SinkSpec == SinkInit /\ [][SinkNext]_vars

(***************************************************************************)
(* The file as read so far, told from the lines themselves: which body     *)
(* lines are environment markers, interval markers and result records,     *)
(* and what the file says each step of each series holds.                  *)
(***************************************************************************)
\* Per line of BodyLines: its comma separated fields, its id, the interval
\* it stands for as an interval marker and the value it carries as a result
\* record.
LineFields == [n \in 1..Len(BodyLines) |-> Split(BodyLines[n], ",")]

LineIds == [n \in 1..Len(BodyLines) |-> ParseInt(LineFields[n][1])]

MarkerTag(line_id, data) ==
    IF line_id > DAILY_LINE
    THEN process_monthly_plus_interval_line(line_id, data)
    ELSE process_sub_monthly_interval_line(line_id, data)

MarkerTags ==
    [n \in 1..Len(BodyLines) |->
        IF LineIds[n].ok /\ MarkerTag(LineIds[n].val, Tail(LineFields[n])).ok
        THEN MarkerTag(LineIds[n].val, Tail(LineFields[n])).val.interval
        ELSE None]

RecordValues ==
    [n \in 1..Len(BodyLines) |->
        IF Len(LineFields[n]) > 1 /\ ParseFloat(LineFields[n][2]).ok
        THEN AsFloat(ParseFloat(LineFields[n][2]).val)
        ELSE NaN]

Fields(n) == LineFields[n]

LineId(n) == LineIds[n]

IsEnvironmentMarker(n) == LineId(n).ok /\ LineId(n).val = ENVIRONMENT_LINE

IsIntervalMarker(n) ==
    /\ LineId(n).ok
    /\ LineId(n).val > ENVIRONMENT_LINE
    /\ LineId(n).val <= highest_interval_id

IsResultRecord(n) == LineId(n).ok /\ LineId(n).val > highest_interval_id

\* The interval an interval marker stands for.
MarkerInterval(n) == MarkerTags[n]

\* The value of a result record.
RecordValue(n) == RecordValues[n]

MaxOf(S) == CHOOSE x \in S : \A y \in S : x >= y

\* Positions in body of the environment markers.
EnvironmentMarkers == {p \in 1..Len(body) : IsEnvironmentMarker(body[p])}

\* First and last position of the e-th environment.
EnvStart(e) ==
    CHOOSE p \in EnvironmentMarkers : Cardinality({q \in EnvironmentMarkers : q <= p}) = e

EnvEnd(e) == IF e < Cardinality(EnvironmentMarkers) THEN EnvStart(e + 1) - 1 ELSE Len(body)

\* Positions of the interval markers of environment e, and of those of
\* interval i.
Markers(e) == {p \in EnvStart(e)..EnvEnd(e) : IsIntervalMarker(body[p])}

MarkersOf(e, i) == {p \in Markers(e) : MarkerInterval(body[p]) = i}

KthMarker(e, i, k) ==
    CHOOSE p \in MarkersOf(e, i) : Cardinality({q \in MarkersOf(e, i) : q <= p}) = k

\* The position where the step opened at p ends: the next interval marker
\* of the environment, or the end of the environment.
StepEnd(e, p) == MinOf({q \in Markers(e) : q > p} \cup {EnvEnd(e) + 1})

\* Positions of the result records for id v in step k of interval i.
Records(e, i, v, k) ==
    {r \in (KthMarker(e, i, k) + 1)..(StepEnd(e, KthMarker(e, i, k)) - 1) :
        IsResultRecord(body[r]) /\ LineId(body[r]).val = v}

\* The value the file gives for step k of series (i, v) of environment e.
ExpectedOutput(e, i, v, k) ==
    IF Records(e, i, v, k) = {} THEN NaN
    ELSE RecordValue(body[MaxOf(Records(e, i, v, k))])

\* The header an environment holds.
HeaderOf(e) == headers[all_raw_data[e].header]

\* read_body has returned its list.
Returned == pc \in {"index", "done"}

(***************************************************************************)
(* Properties.                                                             *)
(***************************************************************************)

\* C1: in every state of a parse, hence after every body line read_body has
\* processed, each series outputs[i][v] of each environment, for every
\* interval i and id v of that environment's header, is as long as dates[i].
C1_SeriesAsLongAsDates ==
    \A e \in 1..Len(all_raw_data) :
        \A i \in HeaderIntervals(HeaderOf(e)) :
            \A v \in HeaderIds(HeaderOf(e), i) :
                /\ i \in DOMAIN all_raw_data[e].dates
                /\ i \in DOMAIN all_raw_data[e].outputs
                /\ v \in DOMAIN all_raw_data[e].outputs[i]
                /\ Len(all_raw_data[e].outputs[i][v]) = Len(all_raw_data[e].dates[i])

\* The loop is running and an environment has two TimeStep steps and one
\* Daily step, its series as long.
C1_Witness ==
    /\ pc = "body"
    /\ \E e \in 1..Len(all_raw_data) :
          /\ {TS, D} \subseteq DOMAIN all_raw_data[e].dates
          /\ Len(all_raw_data[e].dates[TS]) = 2
          /\ Len(all_raw_data[e].dates[D]) = 1
          /\ Len(all_raw_data[e].outputs[TS][7]) = 2
          /\ Len(all_raw_data[e].outputs[D][9]) = 1

\* C2: when read_body has returned, step k of outputs[i][v] of every
\* environment holds the value of the last result record for v between the
\* k-th marker of interval i and the next interval marker, and nan when
\* there is none; every series has one step per marker of its interval.
C2_OutputsAreTheRecords ==
    Returned =>
        \A e \in 1..Len(all_raw_data) :
            \A i \in HeaderIntervals(HeaderOf(e)) :
                \A v \in HeaderIds(HeaderOf(e), i) :
                    /\ Len(all_raw_data[e].dates[i]) = Cardinality(MarkersOf(e, i))
                    /\ Len(all_raw_data[e].outputs[i][v]) = Cardinality(MarkersOf(e, i))
                    /\ \A k \in 1..Cardinality(MarkersOf(e, i)) :
                          all_raw_data[e].outputs[i][v][k] = ExpectedOutput(e, i, v, k)

\* A returned parse in which, in some step, one id reported twice and
\* another id of the same interval did not report.
C2_Witness ==
    /\ Returned
    /\ \E e \in 1..Len(all_raw_data) :
          \E i \in HeaderIntervals(HeaderOf(e)) :
             \E k \in 1..Cardinality(MarkersOf(e, i)) :
                /\ \E v \in HeaderIds(HeaderOf(e), i) : Cardinality(Records(e, i, v, k)) = 2
                /\ \E v \in HeaderIds(HeaderOf(e), i) :
                      /\ Records(e, i, v, k) = {}
                      /\ all_raw_data[e].outputs[i][v][k] = NaN

\* The last body line, once pulled.
LastLine == body[Len(body)]

\* Position of the latest interval marker of the current (last) environment
\* among the lines pulled before the step.
LatestMarker == MaxOf(Markers(Len(all_raw_data)))

\* C3: a result line for id v that read_body stores is stored under the
\* interval I of the latest interval marker of the current environment: the
\* last element of outputs[I][v] becomes its value, and no other series of
\* any interval or environment changes.
C3_StoredUnderLatestMarker ==
    [][(/\ pc = "body"
        /\ pc' = "body"
        /\ body' # body
        /\ IsResultRecord(LastLine'))
       => LET e == Len(all_raw_data)
              v == LineId(LastLine').val
              I == MarkerInterval(body[LatestMarker])
          IN  /\ e > 0
              /\ Markers(e) # {}
              /\ Len(all_raw_data') = e
              /\ I \in DOMAIN all_raw_data[e].outputs
              /\ v \in DOMAIN all_raw_data[e].outputs[I]
              /\ all_raw_data[e].outputs[I][v] # <<>>
              /\ all_raw_data'[e].outputs[I][v]
                    = SetLast(all_raw_data[e].outputs[I][v], RecordValue(LastLine'))
              /\ \A f \in 1..e :
                    \A i \in DOMAIN all_raw_data[f].outputs :
                       \A w \in DOMAIN all_raw_data[f].outputs[i] :
                          (f # e \/ i # I \/ w # v)
                             => all_raw_data'[f].outputs[i][w] = all_raw_data[f].outputs[i][w]
      ]_vars

\* After a TimeStep marker and then a Daily marker, a result for id 7 (an
\* id of both intervals) has been stored in the Daily series and the
\* TimeStep series still holds nan.
C3_Witness ==
    /\ pc = "body"
    /\ Len(all_raw_data) = 1
    /\ Len(body) = 4
    /\ IsResultRecord(LastLine)
    /\ IsIntervalMarker(body[2]) /\ MarkerInterval(body[2]) = TS
    /\ IsIntervalMarker(body[3]) /\ MarkerInterval(body[3]) = D
    /\ {TS, D} \subseteq DOMAIN all_raw_data[1].outputs
    /\ 7 \in DOMAIN all_raw_data[1].outputs[TS] \cap DOMAIN all_raw_data[1].outputs[D]
    /\ all_raw_data[1].outputs[D][7] = <<RecordValue(LastLine)>>
    /\ all_raw_data[1].outputs[TS][7] = <<NaN>>

\* A result record whose id is not an id of header[interval] for the
\* current interval of the running environment.
UnknownIdRecord(n) ==
    /\ IsResultRecord(n)
    /\ all_raw_data # <<>>
    /\ Markers(Len(all_raw_data)) # {}
    /\ interval \in HeaderIntervals(HeaderOf(Len(all_raw_data)))
    /\ LineId(n).val \notin HeaderIds(HeaderOf(Len(all_raw_data)), interval)

\* C4: a result record whose id is not a key of header[current interval]
\* does not end the parse: the loop goes on to the next line and no series,
\* date or environment has changed.
C4_UnknownIdIsDropped ==
    [][(pc = "body" /\ body' # body /\ UnknownIdRecord(LastLine'))
       => (pc' = "body" /\ all_raw_data' = all_raw_data)]_vars

\* A result record read in an environment that has had no interval marker
\* yet.
EarlyRecord(n) ==
    /\ IsResultRecord(n)
    /\ all_raw_data # <<>>
    /\ Markers(Len(all_raw_data)) = {}

\* C5: every environment marker leaves the current interval undefined, and
\* a result record read before the first interval marker of its environment
\* ends the parse with InvalidLineSyntax.
C5_EnvironmentResetsInterval ==
    [][(pc = "body" /\ body' # body)
       => /\ (IsEnvironmentMarker(LastLine') /\ pc' = "body") => interval' = None
          /\ EarlyRecord(LastLine') => (pc' = "failed" /\ error' = "InvalidLineSyntax")
      ]_vars

\* Environments whose index has been built and whose duplicates have been
\* removed.
Processed == 1..processed

\* C6: in the header of every processed environment no two ids carry the
\* same (interval, key, type, units).
C6_NoTupleTwice ==
    \A e \in Processed :
        \A a, b \in 1..Len(HeaderOf(e)) :
            a # b => HeaderOf(e)[a].var # HeaderOf(e)[b].var

\* The duplicates the index reports for the header read_header returned.
Duplicates == populate_tree(headers[1])

\* C7: for every processed environment, every duplicated id is gone from
\* header, outputs and peak outputs under its variable's interval, and for
\* every interval the ids of header, of outputs and, with peaks collected
\* and the interval one of daily, monthly, annual, runperiod, of peak
\* outputs are the same.
C7_SameIdsAfterPruning ==
    \A e \in Processed :
        /\ DOMAIN all_raw_data[e].outputs = HeaderIntervals(HeaderOf(e))
        /\ \A i \in HeaderIntervals(HeaderOf(e)) :
              /\ DOMAIN all_raw_data[e].outputs[i] = HeaderIds(HeaderOf(e), i)
              /\ (~ignore_peaks /\ i \in PeakIntervals)
                    => DOMAIN all_raw_data[e].peak_outputs.map[i] = HeaderIds(HeaderOf(e), i)
        /\ \A d \in 1..Len(Duplicates) :
              /\ Duplicates[d].id \notin HeaderIds(HeaderOf(e), Duplicates[d].v.table)
              /\ Duplicates[d].id \notin DOMAIN all_raw_data[e].outputs[Duplicates[d].v.table]

\* With peaks collected, an environment has been pruned of a duplicate of
\* the daily interval, which is gone from its header, outputs and peaks.
C7_Witness ==
    /\ processed > 0
    /\ ~ignore_peaks
    /\ \E d \in 1..Len(Duplicates) :
          /\ Duplicates[d].v.table = D
          /\ Duplicates[d].id \in HeaderIds(headers[1], D)
          /\ Duplicates[d].id \notin HeaderIds(HeaderOf(1), D)
          /\ Duplicates[d].id \notin DOMAIN all_raw_data[1].outputs[D]
          /\ Duplicates[d].id \notin DOMAIN all_raw_data[1].peak_outputs.map[D]
          /\ all_raw_data[1].dates[D] # <<>>

\* C8: removing the duplicates of one environment changes the header of no
\* other environment and not the header read_header returned; no two
\* environments, and no environment and read_header's result, hold the
\* same header object.
C8_PruningStaysInItsEnvironment ==
    [][processed' # processed
       => /\ headers'[1] = headers[1]
          /\ \A e \in 1..Len(all_raw_data) :
                e # processed' => headers'[all_raw_data'[e].header] = HeaderOf(e)
          /\ \A e \in 1..Len(all_raw_data) : all_raw_data[e].header # 1
      ]_vars

\* The first of two environments has been pruned of a duplicate: its header
\* is shorter than the one read_header returned, which the second
\* environment still holds in full.
C8_Witness ==
    /\ processed = 1
    /\ Len(all_raw_data) = 2
    /\ Len(HeaderOf(1)) < Len(headers[1])
    /\ HeaderOf(2) = headers[1]

\* C9: when read_body has returned, its list holds one environment per
\* environment marker read, in the order read, each named by the first
\* field of its marker with the white space around it removed; without an
\* environment marker the list is empty.
C9_OneEnvironmentPerMarker ==
    Returned =>
        /\ Len(all_raw_data) = Cardinality(EnvironmentMarkers)
        /\ \A e \in 1..Len(all_raw_data) :
              all_raw_data[e].environment_name = Strip(Fields(body[EnvStart(e)])[2])

EnvironmentA == <<"A">>

EnvironmentB == <<"B">>

\* read_body has returned the environments B and A, read in this order
\* from markers that write the names with white space around them.
C9_Witness ==
    /\ Returned
    /\ Len(all_raw_data) = 2
    /\ all_raw_data[1].environment_name = EnvironmentB
    /\ all_raw_data[2].environment_name = EnvironmentA
    /\ Fields(body[EnvStart(1)])[2] # EnvironmentB
    /\ Fields(body[EnvStart(2)])[2] # EnvironmentA

\* C10: read_file sets last_standard_item_id to 6 when version >= 890 and
\* to 5 otherwise, calls read_header after exactly that many skipped lines,
\* and calls read_body with that number as highest_interval_id.
C10_SameIdForPreambleAndBody ==
    [][/\ (pc = "statement" /\ pc' = "preamble")
             => /\ (last_standard_item_id' = 6) <=> (version' >= 890)
                /\ last_standard_item_id' \in {5, 6}
       /\ (pc = "preamble" /\ pc' = "preamble") => skipped' <= last_standard_item_id
       /\ (pc = "preamble" /\ pc' = "header") => skipped = last_standard_item_id
       /\ (pc = "header" /\ pc' = "body")
             => /\ highest_interval_id' = last_standard_item_id
                /\ skipped = last_standard_item_id
       /\ pc # "statement"
             => /\ last_standard_item_id' = last_standard_item_id
                /\ version' = version
       /\ pc \notin {"statement", "preamble"} => skipped' = skipped
       /\ pc \notin {"statement", "preamble", "header"}
             => highest_interval_id' = highest_interval_id
      ]_vars

\* read_body is running on a file of E+ 8.9.0: six lines were skipped and
\* ids up to 6 are interval lines.
C10_Witness ==
    /\ pc = "body"
    /\ version >= 890
    /\ last_standard_item_id = 6
    /\ skipped = 6
    /\ highest_interval_id = 6

\* What the interval markers of an environment have filled in.
Calendar(raw_outputs) ==
    <<raw_outputs.dates, raw_outputs.days_of_week, raw_outputs.cumulative_days>>

\* C11: a body line with an integer id is handled by that id against
\* highest_interval_id h: id 1 opens an environment and touches no other;
\* an id in 2..h is an interval marker, which opens no environment and,
\* when the loop goes on, adds one date under its interval and makes it
\* the current interval; an id above h is a result record, which opens no
\* environment, adds no date, day of week or cumulative days, leaves the
\* current interval and, when the loop goes on, is the last value of the
\* series of its id.  So with h = 5 a line with id 6 is a result for
\* variable 6 and adds no Annual date.
C11_ClassifiedByIdAgainstHighest ==
    [][(pc = "body" /\ body' # body /\ LineId(LastLine').ok)
       => LET e == Len(all_raw_data)
              n == LastLine'
              v == LineId(LastLine').val
          IN  /\ IsEnvironmentMarker(n)
                    => (pc' = "body"
                           => /\ Len(all_raw_data') = e + 1
                              /\ interval' = interval
                              /\ \A f \in 1..e : all_raw_data'[f] = all_raw_data[f])
              /\ IsIntervalMarker(n)
                    => /\ Len(all_raw_data') = e
                       /\ pc' = "body"
                             => /\ e > 0
                                /\ interval' = MarkerInterval(n)
                                /\ interval' \in DOMAIN all_raw_data[e].dates
                                /\ Len(all_raw_data'[e].dates[interval'])
                                      = Len(all_raw_data[e].dates[interval']) + 1
              /\ IsResultRecord(n)
                    => /\ Len(all_raw_data') = e
                       /\ interval' = interval
                       /\ \A f \in 1..e :
                             Calendar(all_raw_data'[f]) = Calendar(all_raw_data[f])
                       /\ pc' = "body"
                             => /\ e > 0
                                /\ interval \in DOMAIN all_raw_data'[e].outputs
                                /\ v \in DOMAIN all_raw_data'[e].outputs[interval]
                                /\ all_raw_data'[e].outputs[interval][v] # <<>>
                                /\ Last(all_raw_data'[e].outputs[interval][v]) = RecordValue(n)
      ]_vars

\* In a file of E+ 8.8.0 that declares variable 6 for TimeStep and a
\* variable for Annual, the line with id 6 read after a TimeStep marker has
\* become the value of variable 6 and no Annual date exists.
C11_Witness ==
    /\ pc = "body"
    /\ highest_interval_id = RUNPERIOD_LINE
    /\ Len(all_raw_data) = 1
    /\ Len(body) = 3
    /\ LineId(LastLine).ok /\ LineId(LastLine).val = ANNUAL_LINE
    /\ interval = TS
    /\ TS \in DOMAIN all_raw_data[1].outputs
    /\ ANNUAL_LINE \in DOMAIN all_raw_data[1].outputs[TS]
    /\ all_raw_data[1].outputs[TS][ANNUAL_LINE] = <<RecordValue(LastLine)>>
    /\ A \in DOMAIN all_raw_data[1].dates
    /\ all_raw_data[1].dates[A] = <<>>

\* A step of read_header that has looked at the line it pulled.
HeaderLineRead ==
    /\ pc = "header"
    /\ error' \notin {"IncompleteFile", "Cancelled"}
    /\ pc' # pc \/ dictionary' # dictionary

\* A step of read_body that has looked at the line it pulled.
BodyLineRead == pc = "body" /\ body' # body

\* C12: a line that read_header cannot match against the dictionary
\* pattern, and a line of which read_body cannot read the leading integer
\* id, ends the section normally when it contains the section's sentinel
\* (read_body then returns, unless the closing tick of a logger asked to
\* cancel raises); else, when it is a bare newline, the parse fails with
\* BlankLineError; else it fails with InvalidLineSyntax, which carries the
\* raw line.
C12_SentinelThenBlankThenInvalid ==
    [][/\ (HeaderLineRead /\ ~process_header_line(pulled').ok)
             => IF Contains(EndOfDataDictionary, pulled')
                THEN pc' = "body" /\ error' = "none"
                ELSE IF pulled' = <<"\n">>
                THEN pc' = "failed" /\ error' = "BlankLineError"
                ELSE pc' = "failed" /\ error' = "InvalidLineSyntax" /\ message' = pulled'
       /\ (BodyLineRead /\ ~LineId(LastLine').ok)
             => IF Contains(EndOfData, pulled')
                THEN \/ pc' = "index" /\ error' = "none"
                     \/ cancel /\ pc' = "failed" /\ error' = "Cancelled"
                ELSE IF pulled' = <<"\n">>
                THEN pc' = "failed" /\ error' = "BlankLineError"
                ELSE pc' = "failed" /\ error' = "InvalidLineSyntax" /\ message' = pulled'
      ]_vars

\* The dictionary was closed by its sentinel and an environment was opened,
\* then read_body met a line without a leading integer that is neither the
\* sentinel nor blank: the parse failed with InvalidLineSyntax carrying it.
C12_Witness ==
    /\ pc = "failed"
    /\ error = "InvalidLineSyntax"
    /\ body # <<>>
    /\ all_raw_data # <<>>
    /\ ~LineId(LastLine).ok
    /\ ~Contains(EndOfData, pulled)
    /\ pulled # <<"\n">>
    /\ message = pulled

\* The fields of `rest` an interval line is read as numbers from.
NumericPositions(line_id) ==
    IF line_id = TIMESTEP_OR_HOURLY_LINE THEN {2, 3, 5, 6, 7}
    ELSE IF line_id = DAILY_LINE THEN {2, 3}
    ELSE IF line_id = MONTHLY_LINE THEN {1, 2}
    ELSE IF line_id = RUNPERIOD_LINE THEN {1}
    ELSE {}

\* Per line of BodyLines: as an interval marker it has a field that is no
\* number where one is read; as a result record its value is no number;
\* one of its peak fields is no number.
NonNumericMarkers ==
    [n \in 1..Len(BodyLines) |->
        /\ LineIds[n].ok
        /\ \E k \in NumericPositions(LineIds[n].val) :
              /\ k + 1 <= Len(LineFields[n])
              /\ ~ParseDecimal(LineFields[n][k + 1]).ok]

NonNumericValues ==
    [n \in 1..Len(BodyLines) |->
        /\ LineIds[n].ok
        /\ Len(LineFields[n]) > 1
        /\ ~ParseFloat(LineFields[n][2]).ok]

NonNumericPeaks ==
    [n \in 1..Len(BodyLines) |->
        /\ LineIds[n].ok
        /\ \E k \in 3..Len(LineFields[n]) : ~PeakField(LineFields[n][k]).ok]

\* C13: an interval marker with a field that is no number where a number
\* is read, a result record whose value is no number and, with peaks
\* collected under a daily, monthly, annual or runperiod interval of the
\* running environment, a result record of a declared id with a peak field
\* that is no number, each end
\* the parse with InvalidLineSyntax; the failing interval marker leaves
\* every environment (dates, days of week, cumulative days, series) as it
\* was.
C13_NonNumericFieldIsInvalidLineSyntax ==
    [][BodyLineRead
       => LET n == LastLine'
          IN  /\ (IsIntervalMarker(n) /\ NonNumericMarkers[n])
                    => /\ pc' = "failed"
                       /\ error' = "InvalidLineSyntax"
                       /\ all_raw_data' = all_raw_data
              /\ (IsResultRecord(n) /\ NonNumericValues[n])
                    => pc' = "failed" /\ error' = "InvalidLineSyntax"
              /\ (/\ IsResultRecord(n)
                  /\ ~NonNumericValues[n]
                  /\ NonNumericPeaks[n]
                  /\ ~ignore_peaks
                  /\ interval \in PeakIntervals
                  /\ all_raw_data # <<>>
                  /\ Markers(Len(all_raw_data)) # {}
                  /\ interval \in HeaderIntervals(HeaderOf(Len(all_raw_data)))
                  /\ LineId(n).val \in HeaderIds(HeaderOf(Len(all_raw_data)), interval))
                    => pc' = "failed" /\ error' = "InvalidLineSyntax"
      ]_vars

\* C14: when next(file) finds the file exhausted before read_header has met
\* End of Data Dictionary or read_body has met End of Data, be it on the
\* statement line, in the preamble, in the dictionary or in the body,
\* process_eso_file fails with IncompleteFile.
C14_ExhaustedIsIncompleteFile ==
    eof => pc = "failed" /\ error = "IncompleteFile"

\* The file ended inside the preamble: after the statement line and some,
\* not all, of the lines skipped for the standard intervals.
C14_Witness ==
    /\ eof
    /\ error = "IncompleteFile"
    /\ skipped > 0
    /\ skipped < last_standard_item_id
    /\ headers = <<>>

\* The errors of a file that cannot be parsed.
FatalErrors == {"InvalidLineSyntax", "BlankLineError", "IncompleteFile"}

\* C15: when InvalidLineSyntax, BlankLineError or IncompleteFile has been
\* raised, also after read_body has built one or more environments, the
\* call has failed: no list has been returned to the caller and no
\* environment of it has been indexed or emitted, and this stays so.
C15_NoPartialResult ==
    [][/\ error' \in FatalErrors => (pc' = "failed" /\ ~Returned' /\ processed' = 0)
       /\ pc = "failed" => pc' = "failed"
      ]_vars

\* read_body had built an environment with a TimeStep step holding a
\* value when a blank line ended the parse.
C15_Witness ==
    /\ pc = "failed"
    /\ error = "BlankLineError"
    /\ Len(all_raw_data) = 1
    /\ TS \in DOMAIN all_raw_data[1].outputs
    /\ \E v \in DOMAIN all_raw_data[1].outputs[TS] :
          /\ all_raw_data[1].outputs[TS][v] # <<>>
          /\ Last(all_raw_data[1].outputs[TS][v]) # NaN

\* process_eso_file has ended: it has returned its list, or an exception
\* has left it.  A process that died of a fault in the compiled module has
\* left the call by neither.
Ended ==
    \/ pc \in {"index", "done"}
    \/ pc = "failed" /\ error # "Segfault"

\* C16: once process_eso_file has ended, by its return or by any exception
\* (IncompleteFile, BlankLineError, InvalidLineSyntax, Cancelled or one the
\* parser does not handle), the file it opened is closed.
C16_FileClosedOnEveryExit == Ended => file = "closed"

\* An exception the parser does not handle, the KeyError of a result line
\* with an undeclared id, has left process_eso_file; the file is closed.
C16_Witness ==
    /\ pc = "failed"
    /\ error = "KeyError"
    /\ body # <<>>
    /\ IsResultRecord(LastLine)
    /\ file = "closed"

\* A step of read_header or read_body that pulls a line while the next
\* line is the one the logger is ticked on.
PullAtChunkBoundary ==
    /\ pc \in {"header", "body"}
    /\ counter + 1 = chunk_size
    /\ ~eof'

\* C17: once cancellation has been requested of the logger, the next call
\* of increment_progress, at the chunk boundary or after the loop of
\* read_body, ends the parse with Cancelled: the line pulled at that tick
\* is not dispatched (header, environments and current interval stay as
\* they were), no tick is counted after the request, nothing happens after
\* the error, and no list is returned.
C17_CancelledAtNextTick ==
    [][/\ (cancel /\ PullAtChunkBoundary)
             => /\ pc' = "failed"
                /\ error' = "Cancelled"
                /\ <<headers, all_raw_data, interval, dictionary, body>>'
                      = <<headers, all_raw_data, interval, dictionary, body>>
       /\ cancel => progress' = progress
       /\ error' = "Cancelled" => (cancel /\ pc' = "failed" /\ processed' = 0)
       /\ error # "Cancelled"
      ]_vars

\* Cancellation was requested while read_body was inside a chunk: the
\* lines up to the chunk boundary were still dispatched into an environment
\* with a TimeStep step, and the tick at the boundary ended the parse with
\* Cancelled before End of Data was read.
C17_Witness ==
    /\ pc = "failed"
    /\ error = "Cancelled"
    /\ cancel
    /\ counter = chunk_size
    /\ Len(body) >= 2
    /\ Len(all_raw_data) = 1
    /\ TS \in DOMAIN all_raw_data[1].dates
    /\ all_raw_data[1].dates[TS] # <<>>

\* What process_header_line makes of the first k lines of DictionaryLines.
RECURSIVE FieldsOfLines(_)
FieldsOfLines(k) ==
    IF k = 0 THEN <<>>
    ELSE Append(FieldsOfLines(k - 1), process_header_line(DictionaryLines[k]).val)

DictionaryFields == FieldsOfLines(Len(DictionaryLines))

\* The headers read_header returns for a dictionary of the first 0, 1, ..., k
\* lines of DictionaryLines, in this order.
RECURSIVE HeadersOfLines(_)
HeadersOfLines(k) ==
    IF k = 0 THEN << <<>> >>
    ELSE Append(HeadersOfLines(k - 1),
                HeaderPut(Last(HeadersOfLines(k - 1)),
                          DictionaryFields[k].interval, DictionaryFields[k].line_id,
                          Variable(DictionaryFields[k].interval, DictionaryFields[k].key,
                                   DictionaryFields[k].type, DictionaryFields[k].units)))

HeadersRead == HeadersOfLines(Len(DictionaryLines))

\* The states read_body can be in after an iteration from st on line n of
\* BodyLines that raised nothing.
Advance(st, n) ==
    {[st EXCEPT !.interval = out.interval,
                !.all_raw_data = out.all_raw_data,
                !.headers = out.headers] :
        out \in {o \in SplitLine(st, BodyLines[n], LineFields[n]) : o.exc = "none"}}

\* What read_body holds after the first k of the body lines `lines` when
\* read_file is run again on the same statement line, dictionary and body
\* with the same ignore_peaks: one of the ways that run can go.
RECURSIVE Rerun(_, _)
Rerun(lines, k) ==
    IF k = 0
    THEN [highest_interval_id |-> LastStandardItemId(version),
          ignore_peaks |-> ignore_peaks, header |-> 1, interval |-> None,
          all_raw_data |-> <<>>, headers |-> <<HeadersRead[dictionary + 1]>>]
    ELSE CHOOSE r \in UNION {Advance(st, lines[k]) :
                                st \in {Rerun(lines, k - 1)}} : TRUE

\* The list read_body returns from st, with the header objects its
\* environments refer to.
Returns(st) == <<st.all_raw_data, st.headers>>

C19_DatesMatchDays ==
    Returned =>
        \A e \in 1..Len(all_raw_data) :
            \A i \in DOMAIN all_raw_data[e].dates :
                /\ i \in {TS, H, D} =>
                      /\ i \in DOMAIN all_raw_data[e].days_of_week
                      /\ Len(all_raw_data[e].dates[i]) = Len(all_raw_data[e].days_of_week[i])
                /\ i \in {M, A, RP} =>
                      /\ i \in DOMAIN all_raw_data[e].cumulative_days
                      /\ Len(all_raw_data[e].dates[i]) = Len(all_raw_data[e].cumulative_days[i])

\* A parse has returned an environment with a TimeStep marker and its day
\* of week, a Monthly marker and its day count, and an Annual marker, whose
\* cumulative-days entry holds no day count.
C19_Witness ==
    /\ Returned
    /\ Len(all_raw_data) = 1
    /\ {TS, M, A} \subseteq DOMAIN all_raw_data[1].dates
    /\ Len(all_raw_data[1].dates[TS]) = 1
    /\ Len(all_raw_data[1].days_of_week[TS]) = 1
    /\ Len(all_raw_data[1].dates[M]) = 1
    /\ Len(all_raw_data[1].cumulative_days[M]) = 1
    /\ all_raw_data[1].cumulative_days[M] # <<NoDays>>
    /\ Len(all_raw_data[1].dates[A]) = 1
    /\ all_raw_data[1].cumulative_days[A] = <<NoDays>>

\* The peak series of environment e are as long as its dates, for every
\* interval of PeakIntervals and every id its header declares there.
PeaksAsLongAsDates(e) ==
    \A i \in PeakIntervals \cap HeaderIntervals(headers[all_raw_data[e].header]) :
        /\ i \in DOMAIN all_raw_data[e].peak_outputs.map
        /\ \A v \in HeaderIds(headers[all_raw_data[e].header], i) :
              /\ v \in DOMAIN all_raw_data[e].peak_outputs.map[i]
              /\ Len(all_raw_data[e].peak_outputs.map[i][v]) = Len(all_raw_data[e].dates[i])

\* C20: after every body line read_body has processed, with ignore_peaks
\* false every environment holds, for each Daily, Monthly, Annual or
\* RunPeriod interval and each id of its header there, a peak series as long
\* as the dates of the interval, and no peak series for TimeStep or Hourly;
\* with ignore_peaks true no environment holds peak outputs at all.
C20_PeaksAsLongAsDates ==
    processed = 0 =>
        \A e \in 1..Len(all_raw_data) :
            IF ignore_peaks
            THEN all_raw_data[e].peak_outputs = PeaksNone
            ELSE /\ ~all_raw_data[e].peak_outputs.none
                 /\ DOMAIN all_raw_data[e].peak_outputs.map \cap {TS, H} = {}
                 /\ PeaksAsLongAsDates(e)

\* Peaks are collected and an environment has a TimeStep and a Daily step:
\* the Daily result with a peak is stored, the other Daily id holds the
\* missing peak of the step, and no TimeStep peak series exists.
C20_Witness ==
    /\ ~ignore_peaks
    /\ pc = "body"
    /\ Len(all_raw_data) = 1
    /\ {TS, D} \subseteq DOMAIN all_raw_data[1].dates
    /\ Len(all_raw_data[1].dates[TS]) = 1
    /\ Len(all_raw_data[1].dates[D]) = 1
    /\ TS \notin DOMAIN all_raw_data[1].peak_outputs.map
    /\ DOMAIN all_raw_data[1].peak_outputs.map[D] = {7, 9}
    /\ all_raw_data[1].peak_outputs.map[D][7] = <<PeakMissing>>
    /\ Len(all_raw_data[1].peak_outputs.map[D][9]) = 1
    /\ all_raw_data[1].peak_outputs.map[D][9] # <<PeakMissing>>

\* The decimal literal s as the integer s * 10^(digits of its fraction).
ScaledLiteral(s) ==
    ParseDecimal(s).val.ip * 10 ^ Len(ParseDecimal(s).val.fr)
        + DigitsVal(ParseDecimal(s).val.fr)

\* The integer nearest to the non-negative decimal literal s, the upper one
\* of two that are equally near: e with e - 1/2 <= s < e + 1/2.
HalfUp(s) ==
    CHOOSE e \in 0..(ParseDecimal(s).val.ip + 1) :
        /\ (2 * e - 1) * 10 ^ Len(ParseDecimal(s).val.fr) <= 2 * ScaledLiteral(s)
        /\ 2 * ScaledLiteral(s) < (2 * e + 1) * 10 ^ Len(ParseDecimal(s).val.fr)

\* Start minute and end minute literal of the marker with id 2 in line n.
StartMinuteField(n) == LineFields[n][7]

EndMinuteField(n) == LineFields[n][8]

\* Line n is a marker with id 2 whose minutes are decimal literals.
IsTimestepOrHourlyMarker(n) ==
    /\ LineIds[n].ok
    /\ LineIds[n].val = TIMESTEP_OR_HOURLY_LINE
    /\ Len(LineFields[n]) = 9
    /\ ParseDecimal(StartMinuteField(n)).ok
    /\ ParseDecimal(EndMinuteField(n)).ok

\* The start minute of line n is zero.
StartsOnTheHour(n) == ScaledLiteral(StartMinuteField(n)) = 0

\* For the first k lines of BodyLines: whether the line is such a marker,
\* whether it starts on the hour, and its end minute rounded half up.
RECURSIVE MinutesOfLines(_)
MinutesOfLines(k) ==
    IF k = 0 THEN <<>>
    ELSE Append(MinutesOfLines(k - 1),
                IF IsTimestepOrHourlyMarker(k)
                THEN [marker |-> TRUE, on_the_hour |-> StartsOnTheHour(k),
                      end_minute |-> HalfUp(EndMinuteField(k))]
                ELSE [marker |-> FALSE, on_the_hour |-> FALSE, end_minute |-> 0])

MarkerMinutes == MinutesOfLines(Len(BodyLines))

\* C21: for a marker with id 2 and end-minute literal s, the end minute of
\* the stamp stored is s rounded half up (59.999999 gives 60, 29.5 gives
\* 30), and the marker counts as Hourly exactly when its start minute is 0
\* and the rounded end minute is 60, as TimeStep otherwise.
C21_EndMinuteRoundedHalfUp ==
    [][(BodyLineRead /\ MarkerMinutes[LastLine'].marker)
       => /\ interval' = IF /\ MarkerMinutes[LastLine'].on_the_hour
                            /\ MarkerMinutes[LastLine'].end_minute = 60
                         THEN H ELSE TS
          /\ pc' = "body"
                => /\ interval' \in DOMAIN all_raw_data'[Len(all_raw_data')].dates
                   /\ Last(all_raw_data'[Len(all_raw_data')].dates[interval'])[4]
                         = MarkerMinutes[LastLine'].end_minute
      ]_vars

\* An environment holds the stamps of three markers with id 2: one with
\* end minute 59.999999 after start minute 0 stored under Hourly with end
\* minute 60, and under TimeStep one with end minute 29.5 stored as 30 and
\* one with end minute 60 after start minute 45.
C21_Witness ==
    /\ pc = "body"
    /\ Len(all_raw_data) = 1
    /\ {TS, H} \subseteq DOMAIN all_raw_data[1].dates
    /\ body = <<1, 17, 18, 19>>
    /\ Len(all_raw_data[1].dates[H]) = 1
    /\ all_raw_data[1].dates[H][1][4] = 60
    /\ Len(all_raw_data[1].dates[TS]) = 2
    /\ all_raw_data[1].dates[TS][1][4] = 30
    /\ all_raw_data[1].dates[TS][2][4] = 60

\* Line n is a well-formed interval marker, read inside an environment
\* whose header declares no variable for the marker's interval.
UndeclaredIntervalMarker(n) ==
    /\ IsIntervalMarker(n)
    /\ MarkerInterval(n) # None
    /\ all_raw_data # <<>>
    /\ MarkerInterval(n) \notin HeaderIntervals(HeaderOf(Len(all_raw_data)))

\* C22: an interval marker whose interval has no variable in the header is
\* accepted: the loop goes on to the next line and the marker's stamp has
\* been appended to the dates of its interval.
C22_UndeclaredIntervalIsRecorded ==
    [][(BodyLineRead /\ UndeclaredIntervalMarker(LastLine'))
       => /\ pc' = "body"
          /\ MarkerInterval(LastLine') \in DOMAIN all_raw_data'[Len(all_raw_data')].dates
          /\ all_raw_data'[Len(all_raw_data')].dates[MarkerInterval(LastLine')] # <<>>
      ]_vars

\* The value of the result line `7,21.5`.
TwentyOneAndAHalf == [kind |-> "float", neg |-> FALSE, ip |-> 21, fr |-> <<"5">>]

\* Scenario S5: the dictionary declares ids 8 and 7 under TimeStep; the
\* body is an environment marker, a TimeStep marker, `7,21.5`, a second
\* TimeStep marker and End of Data; read_file has returned.
SparseSeriesRead ==
    /\ pc = "index"
    /\ processed = 0
    /\ dictionary = 2
    /\ body = <<1, 3, 5, 3, 9>>

\* C23 as stated: the parse of scenario S5 yields outputs[TS][7] =
\* [missing, 21.5] and outputs[TS][8] = [missing, missing].
C23_ValueInSecondStep ==
    SparseSeriesRead
        => /\ Len(all_raw_data) = 1
           /\ all_raw_data[1].outputs[TS][7] = <<NaN, TwentyOneAndAHalf>>
           /\ all_raw_data[1].outputs[TS][8] = <<NaN, NaN>>

\* C23: the parse of scenario S5 yields outputs[TS][7] = [21.5, missing],
\* the value in the step of the marker it follows, and outputs[TS][8] =
\* [missing, missing].
C23_ValueInFirstStep ==
    SparseSeriesRead
        => /\ Len(all_raw_data) = 1
           /\ all_raw_data[1].outputs[TS][7] = <<TwentyOneAndAHalf, NaN>>
           /\ all_raw_data[1].outputs[TS][8] = <<NaN, NaN>>

\* Scenario S5 has been parsed: two TimeStep dates and two steps in each
\* of the series of ids 7 and 8.
C23_Witness ==
    /\ SparseSeriesRead
    /\ Len(all_raw_data[1].dates[TS]) = 2
    /\ Len(all_raw_data[1].outputs[TS][7]) = 2
    /\ Len(all_raw_data[1].outputs[TS][8]) = 2

\* The dicts remove_duplicates was given, as the record it returns.
Dicts(header, outputs, peak_outputs) ==
    [header |-> header, outputs |-> outputs, peak_outputs |-> peak_outputs]

\* C24: after remove_duplicates has pruned the header, outputs and peak
\* outputs of an environment, remove_duplicates with the same duplicates
\* map on the pruned dicts raises nothing and returns them as they are.
C24_PruningTwiceIsPruningOnce ==
    [][(pc = "index" /\ processed' = processed + 1)
       => /\ RemoveDuplicatesRaises(
                 populate_tree(headers[all_raw_data[processed'].header]),
                 headers'[all_raw_data'[processed'].header],
                 all_raw_data'[processed'].outputs,
                 all_raw_data'[processed'].peak_outputs) = "none"
          /\ remove_duplicates(
                 populate_tree(headers[all_raw_data[processed'].header]),
                 headers'[all_raw_data'[processed'].header],
                 all_raw_data'[processed'].outputs,
                 all_raw_data'[processed'].peak_outputs)
               = Dicts(headers'[all_raw_data'[processed'].header],
                       all_raw_data'[processed'].outputs,
                       all_raw_data'[processed'].peak_outputs)
      ]_vars

\* An environment with a Daily step has been pruned of a duplicate: its
\* header, outputs and peak outputs have lost id 7 under TimeStep.
C24_Witness ==
    /\ pc = "index"
    /\ processed = 1
    /\ ~ignore_peaks
    /\ populate_tree(headers[1]) # <<>>
    /\ D \in DOMAIN all_raw_data[1].outputs
    /\ all_raw_data[1].dates[D] # <<>>
    /\ DOMAIN all_raw_data[1].outputs[TS] = {8}
    /\ HeaderIds(headers[all_raw_data[1].header], TS) = {8}

\* C25: in the header read_header has returned, every variable id occurs
\* under one interval only.
C25_IdsUniqueAcrossDictionary ==
    (pc = "body" /\ body = <<>>)
        => \A i \in HeaderIntervals(headers[1]) :
              \A j \in HeaderIntervals(headers[1]) \ {i} :
                 HeaderIds(headers[1], i) \cap HeaderIds(headers[1], j) = {}

\* The list read_file returns when no logger takes part: the body lines
\* dispatched one after the other from the header read.
SinklessList == Returns(Rerun(body, Len(body)))

\* C26: whatever the chunk size of the logger and whatever line count and
\* progress it starts with, the list read_file returns is the list the
\* lines alone give.
C26_SinkOffTheResult ==
    (pc = "index" /\ processed = 0) => <<all_raw_data, headers>> = SinklessList

\* read_file has returned an environment with a TimeStep and a Daily date
\* under a logger of the smaller chunk size that started with a line
\* counted, was never asked to cancel, and ticked inside read_body.
C26_Witness ==
    /\ pc = "index"
    /\ processed = 0
    /\ ~cancel
    /\ chunk_size = CHUNK_SIZE - 1
    /\ line_counter > LinesPulled
    /\ progress >= 3
    /\ Len(all_raw_data) = 1
    /\ {TS, D} \subseteq DOMAIN all_raw_data[1].dates
    /\ all_raw_data[1].dates[TS] # <<>>
    /\ all_raw_data[1].dates[D] # <<>>

\* Environment e of all_raw_data after the step differs from the one before
\* at most in the bins of interval i.
SameButInterval(e, i) ==
    /\ all_raw_data'[e].environment_name = all_raw_data[e].environment_name
    /\ all_raw_data'[e].header = all_raw_data[e].header
    /\ DOMAIN all_raw_data'[e].dates = DOMAIN all_raw_data[e].dates
    /\ DOMAIN all_raw_data'[e].outputs = DOMAIN all_raw_data[e].outputs
    /\ all_raw_data'[e].peak_outputs.none = all_raw_data[e].peak_outputs.none
    /\ DOMAIN all_raw_data'[e].peak_outputs.map = DOMAIN all_raw_data[e].peak_outputs.map
    /\ \A j \in DOMAIN all_raw_data[e].dates \ {i} :
          /\ all_raw_data'[e].dates[j] = all_raw_data[e].dates[j]
          /\ all_raw_data'[e].outputs[j] = all_raw_data[e].outputs[j]
    /\ \A j \in DOMAIN all_raw_data[e].peak_outputs.map \ {i} :
          all_raw_data'[e].peak_outputs.map[j] = all_raw_data[e].peak_outputs.map[j]

\* C27: an interval marker of interval I that read_body accepts appends one
\* stamp to dates[I] of the current environment and one nan to every series
\* of outputs[I]; with peaks collected and I one of Daily, Monthly, Annual
\* and RunPeriod it appends one missing peak to every series of
\* peak_outputs[I], and else the peak outputs stay as they are; the dates and
\* series of the other intervals and the other environments are unchanged.
C27_MarkerOpensOneStep ==
    [][(/\ BodyLineRead
        /\ pc' = "body"
        /\ IsIntervalMarker(LastLine'))
       => LET e == Len(all_raw_data)
              I == MarkerInterval(LastLine')
          IN  /\ e > 0
              /\ Len(all_raw_data') = e
              /\ I \in DOMAIN all_raw_data[e].dates
              /\ Len(all_raw_data'[e].dates[I]) = Len(all_raw_data[e].dates[I]) + 1
              /\ SubSeq(all_raw_data'[e].dates[I], 1, Len(all_raw_data[e].dates[I]))
                    = all_raw_data[e].dates[I]
              /\ DOMAIN all_raw_data'[e].outputs[I] = DOMAIN all_raw_data[e].outputs[I]
              /\ \A v \in DOMAIN all_raw_data[e].outputs[I] :
                    all_raw_data'[e].outputs[I][v] = Append(all_raw_data[e].outputs[I][v], NaN)
              /\ IF ~ignore_peaks /\ I \in PeakIntervals
                 THEN /\ I \in DOMAIN all_raw_data[e].peak_outputs.map
                      /\ DOMAIN all_raw_data'[e].peak_outputs.map[I]
                            = DOMAIN all_raw_data[e].peak_outputs.map[I]
                      /\ \A v \in DOMAIN all_raw_data[e].peak_outputs.map[I] :
                            all_raw_data'[e].peak_outputs.map[I][v]
                               = Append(all_raw_data[e].peak_outputs.map[I][v], PeakMissing)
                 ELSE all_raw_data'[e].peak_outputs = all_raw_data[e].peak_outputs
              /\ SameButInterval(e, I)
              /\ \A f \in 1..(e - 1) : all_raw_data'[f] = all_raw_data[f]
      ]_vars

\* With peaks collected, a Daily marker has followed a TimeStep marker and
\* a TimeStep result: the Daily series and peak series each hold the one
\* missing element of the new step, and the TimeStep series still hold
\* their one step with the value stored.
C27_Witness ==
    /\ ~ignore_peaks
    /\ pc = "body"
    /\ body = <<1, 3, 5, 4>>
    /\ Len(all_raw_data) = 1
    /\ {TS, D} \subseteq DOMAIN all_raw_data[1].dates
    /\ Len(all_raw_data[1].dates[TS]) = 1
    /\ Len(all_raw_data[1].dates[D]) = 1
    /\ all_raw_data[1].outputs[TS][7] = <<TwentyOneAndAHalf>>
    /\ \A v \in DOMAIN all_raw_data[1].outputs[D] : all_raw_data[1].outputs[D][v] = <<NaN>>
    /\ DOMAIN all_raw_data[1].peak_outputs.map[D] = {7, 9}
    /\ \A v \in {7, 9} : all_raw_data[1].peak_outputs.map[D][v] = <<PeakMissing>>

\* Entry a of the header read_header returned is the first one declared with
\* its (interval, key, type, units).
FirstDeclared(a) == ~\E b \in 1..(a - 1) : headers[1][b].var = headers[1][a].var

\* The ids of the duplicates map.
DuplicateIds == {Duplicates[d].id : d \in 1..Len(Duplicates)}

\* C28: in every processed environment, of the ids declared with one
\* (interval, key, type, units) the first declared is still in the header
\* and the outputs of its interval, and every later one is an id of the
\* duplicates map and is gone from the header and the outputs of that
\* interval.
C28_FirstDeclaredIsRetained ==
    \A e \in Processed :
        \A a \in 1..Len(headers[1]) :
            IF FirstDeclared(a)
            THEN /\ \E k \in 1..Len(HeaderOf(e)) : HeaderOf(e)[k] = headers[1][a]
                 /\ headers[1][a].id \in DOMAIN all_raw_data[e].outputs[headers[1][a].table]
            ELSE /\ headers[1][a].id \in DuplicateIds
                 /\ headers[1][a].id \notin HeaderIds(HeaderOf(e), headers[1][a].table)
                 /\ headers[1][a].id \notin DOMAIN all_raw_data[e].outputs[headers[1][a].table]

\* (table, id) is a pair remove_duplicates is asked to delete.
IsDuplicated(duplicates, table, id) ==
    \E d \in 1..Len(duplicates) : duplicates[d].id = id /\ duplicates[d].v.table = table

\* Entries of a header in order, without those the duplicates map names.
Surviving(header, duplicates) ==
    SelectSeq(header, LAMBDA x : ~IsDuplicated(duplicates, x.table, x.id))

\* remove_duplicates(duplicates, ...) has turned environment old, with the
\* header given, into environment new: what the map does not name is as it
\* was.
RestKept(old, new, header, duplicates) ==
    /\ headers'[new.header] = Surviving(header, duplicates)
    /\ DOMAIN new.outputs = DOMAIN old.outputs
    /\ \A i \in DOMAIN old.outputs :
          \A v \in DOMAIN old.outputs[i] :
             ~IsDuplicated(duplicates, i, v)
                => /\ v \in DOMAIN new.outputs[i]
                   /\ new.outputs[i][v] = old.outputs[i][v]
    /\ new.peak_outputs.none = old.peak_outputs.none
    /\ DOMAIN new.peak_outputs.map = DOMAIN old.peak_outputs.map
    /\ \A i \in DOMAIN old.peak_outputs.map :
          \A v \in DOMAIN old.peak_outputs.map[i] :
             ~IsDuplicated(duplicates, i, v)
                => /\ v \in DOMAIN new.peak_outputs.map[i]
                   /\ new.peak_outputs.map[i][v] = old.peak_outputs.map[i][v]
    /\ new.dates = old.dates
    /\ new.days_of_week = old.days_of_week
    /\ new.cumulative_days = old.cumulative_days
    /\ new.environment_name = old.environment_name
    /\ new.header = old.header

\* C29: removing the duplicates of an environment leaves every id the
\* duplicates map does not name with its Variable in the header, in the
\* order it had, and with its series in outputs and in peak outputs as they
\* were; the intervals of outputs and peak outputs stay; dates, days of week
\* and cumulative days of the environment, and every other environment, are
\* unchanged.
C29_PruningKeepsTheRest ==
    [][(pc = "index" /\ processed' = processed + 1)
       => /\ RestKept(all_raw_data[processed'], all_raw_data'[processed'],
                      HeaderOf(processed'), populate_tree(HeaderOf(processed')))
          /\ \A f \in 1..Len(all_raw_data) :
                f # processed' => all_raw_data'[f] = all_raw_data[f]
      ]_vars

\* With peaks collected, an environment with a Daily step and a TimeStep
\* step has been pruned of the duplicate id 7 of Daily: id 9 of Daily still
\* has its Variable, its value and its peak, id 7 of TimeStep, which the map
\* does not name, still has its one-step series, and the stamps of the
\* steps are there.
C29_Witness ==
    /\ ~ignore_peaks
    /\ pc = "index"
    /\ processed = 1
    /\ body = <<1, 3, 4, 7, 9>>
    /\ Len(all_raw_data) = 1
    /\ IsDuplicated(Duplicates, D, 7)
    /\ ~IsDuplicated(Duplicates, TS, 7)
    /\ HeaderIds(headers[1], D) = {9, 7}
    /\ HeaderIds(HeaderOf(1), D) = {9}
    /\ 7 \in HeaderIds(HeaderOf(1), TS)
    /\ HeaderVar(HeaderOf(1), D, 9) = HeaderVar(headers[1], D, 9)
    /\ all_raw_data[1].outputs[D] = (9 :> <<RecordValue(7)>>)
    /\ all_raw_data[1].outputs[TS][7] = <<NaN>>
    /\ DOMAIN all_raw_data[1].peak_outputs.map[D] = {9}
    /\ all_raw_data[1].peak_outputs.map[D][9] # <<PeakMissing>>
    /\ Len(all_raw_data[1].dates[TS]) = 1
    /\ Len(all_raw_data[1].dates[D]) = 1
    /\ Len(all_raw_data[1].days_of_week[D]) = 1

\* The dictionary lines whose interval tag is `Each Call`.
EachCallTag == <<"!", "E", "a", "c", "h", " ", "C", "a", "l", "l">>

EachCallLines == {n \in 1..Len(DictionaryLines) : Contains(EachCallTag, DictionaryLines[n])}

\* The Variable of `12,1,E,T [C] !Each Call` and the Variable of
\* `8,1,E,T [C] !TimeStep`, the TimeStep line with its key, type and units.
EachCallVariable ==
    Variable(TS, <<"E">>, <<"S", "y", "s", "t", "e", "m", " ", "-", " ", "T">>, <<"C">>)

TimeStepVariable == Variable(TS, <<"E">>, <<"T">>, <<"C">>)

\* read_header has returned for a dictionary with the `Each Call` line.
EachCallRead == pc = "body" /\ \E n \in EachCallLines : n <= dictionary

\* C30: when read_header has returned for a dictionary with the line
\* `12,1,E,T [C] !Each Call`, id 12 is in the header under timestep only,
\* with key E, units C and type `System - T`; its Variable differs from the
\* one of id 8, declared `E,T [C] !TimeStep`, which is under timestep too;
\* no interval of the header is named after `Each Call`, and every
\* environment keeps a series for both ids in the timestep bin.
C30_EachCallIsSystemTimeStep ==
    EachCallRead =>
        /\ {i \in HeaderIntervals(headers[1]) : 12 \in HeaderIds(headers[1], i)} = {TS}
        /\ HeaderVar(headers[1], TS, 12) = EachCallVariable
        /\ 8 \in HeaderIds(headers[1], TS)
        /\ HeaderVar(headers[1], TS, 8) = TimeStepVariable
        /\ HeaderVar(headers[1], TS, 12) # HeaderVar(headers[1], TS, 8)
        /\ HeaderIntervals(headers[1]) \subseteq Intervals
        /\ \A e \in 1..Len(all_raw_data) :
              {8, 12} \subseteq DOMAIN all_raw_data[e].outputs[TS]

\* A dictionary with the `Each Call` line has been read and an environment
\* has had a TimeStep step: ids 8 and 12 each hold the step's nan in the
\* timestep bin, and the index built from the header names id 7, declared
\* like id 8, a duplicate but not id 12.
C30_Witness ==
    /\ EachCallRead
    /\ Len(all_raw_data) = 1
    /\ Len(all_raw_data[1].dates[TS]) = 1
    /\ all_raw_data[1].outputs[TS][8] = <<NaN>>
    /\ all_raw_data[1].outputs[TS][12] = <<NaN>>
    /\ HeaderVar(headers[1], TS, 12).type = SystemPrefix \o HeaderVar(headers[1], TS, 8).type
    /\ 12 \notin DuplicateIds
    /\ 6 \in DuplicateIds

\* The lines pulled from the file so far, while the parse is under way.
PulledSoFar ==
    CASE pc = "statement" -> 0
      [] pc = "preamble" -> 1 + skipped
      [] pc = "header" -> 1 + skipped + dictionary
      [] OTHER -> 1 + skipped + dictionary + 1 + Len(body)

\* A step in which next(file) gives a line, with no cancellation asked
\* for, other than the one on which read_body returns (which may tick once
\* more after its loop).
PullsALine ==
    /\ pc \in {"statement", "preamble", "header", "body"}
    /\ ~(pc = "preamble" /\ pc' = "header")
    /\ ~eof'
    /\ ~cancel /\ ~cancel'
    /\ pc' # "index"

\* C31: a pull makes the logger tick exactly when the number of lines
\* pulled from the file so far, the statement line and the preamble
\* included, becomes a multiple of the chunk size; no pull ticks twice.
C31_TickAtEveryMultiple ==
    [][PullsALine
       => /\ progress' \in {progress, progress + 1}
          /\ progress' = progress + 1 <=> (PulledSoFar + 1) % chunk_size = 0
      ]_vars

\* read_header has returned and read_body has pulled nothing yet, or
\* read_body has returned.
SectionReturned ==
    \/ pc = "body" /\ body = <<>>
    \/ pc = "index" /\ error = "none" /\ processed = 0

\* C32: when read_header returns and when read_body returns, the logger's
\* line_counter is the number of lines pulled from the file so far.
C32_LineCounterIsLinesPulled ==
    SectionReturned => line_counter = 1 + skipped + dictionary + 1 + Len(body)

\* ceil(a / b) for b > 0.
Ceil(a, b) == (a + b - 1) \div b

\* The lines of the file that read_file has pulled when read_body returns.
LinesRead == 1 + skipped + dictionary + 1 + Len(body)

\* The numbers that can be the line count of the file once read_body has
\* returned: the lines read and those after them, as they are and as
\* count_lines reports them.
LineCounts ==
    UNION {{LinesRead + t, count_lines(LinesRead + t)} : t \in 0..MaxTrailingLines}

\* C33: once the whole file has been parsed, the maximum that
\* preprocess_file has set on the logger is ceil(L / chunk size) for L the
\* line count of the file.
C33_MaximumIsCeiling ==
    (pc \in {"index", "done"} /\ error = "none")
        => \E L \in LineCounts : max_progress = Ceil(L, chunk_size)

\* read_body returns on this step, with no cancellation asked for.
ReadBodyReturns == pc = "body" /\ pc' = "index" /\ ~cancel

\* C34: on the step on which read_body meets `End of Data` and returns, the
\* logger ticks once after the loop when the number of lines pulled from
\* the file, the sentinel included, is not a multiple of the chunk size,
\* and does not tick after the loop when it is.
C34_OneMoreTickUnlessMultiple ==
    [][ReadBodyReturns
       => progress' - TickedProgress
             = IF (PulledSoFar + 1) % chunk_size # 0 THEN 1 ELSE 0
      ]_vars

\* A chunk size above the number of lines before the data dictionary.
WideChunk == 7

\* process_eso_file called with a logger that has counted nothing yet, of
\* the one or the other chunk size, and peaks ignored.
ProgressInit ==
    /\ pc = "statement"
    /\ error = "none"
    /\ message = None
    /\ file = "open"
    /\ version = 0
    /\ last_standard_item_id = 0
    /\ skipped = 0
    /\ headers = <<>>
    /\ highest_interval_id = 0
    /\ ignore_peaks = TRUE
    /\ interval = None
    /\ all_raw_data = <<>>
    /\ pulled = None
    /\ counter = 0
    /\ line_counter = 0
    /\ progress = 0
    /\ max_progress = 0
    /\ cancel = FALSE
    /\ eof = FALSE
    /\ processed = 0
    /\ dictionary = 0
    /\ body = <<>>
    /\ chunk_size \in {CHUNK_SIZE, WideChunk}

ProgressSpec == ProgressInit /\ [][SinkNext]_vars

\* C35: when read_body has returned, the ticks the logger has counted are
\* no more than the maximum preprocess_file has set for the file.
C35_ProgressWithinMaximum ==
    (pc \in {"index", "done"} /\ error = "none") => progress <= max_progress

\* C36: a line read by read_body changes no environment but the last of
\* the list: an environment line appends one and leaves all those before
\* it, the one current until then included, as they are, with their
\* headers; an interval line or a result line leaves every environment
\* before the current one, dates, day sequences, outputs and peak outputs,
\* as it is.
C36_EarlierEnvironmentsFrozen ==
    [][pc = "body"
       => /\ Len(all_raw_data') >= Len(all_raw_data)
          /\ \A f \in 1..Len(all_raw_data) :
                f < Len(all_raw_data')
                   => /\ all_raw_data'[f] = all_raw_data[f]
                      /\ headers'[all_raw_data'[f].header] = headers[all_raw_data[f].header]
      ]_vars

\* With peaks collected, a Daily marker and a Daily result with its peak
\* have been read after the second environment line: they are in the
\* second environment, and the first still has no Daily step, no value and
\* no peak.
C36_Witness ==
    /\ ~ignore_peaks
    /\ pc = "body"
    /\ body = <<1, 2, 4, 7>>
    /\ Len(all_raw_data) = 2
    /\ all_raw_data[1].dates[D] = <<>>
    /\ all_raw_data[1].days_of_week[D] = <<>>
    /\ all_raw_data[1].outputs[D][9] = <<>>
    /\ all_raw_data[1].peak_outputs.map[D][9] = <<>>
    /\ Len(all_raw_data[2].dates[D]) = 1
    /\ all_raw_data[2].outputs[D][9] = <<RecordValue(7)>>
    /\ all_raw_data[2].peak_outputs.map[D][9] # <<PeakMissing>>

\* The file as read so far is the file as read before the step, or that
\* and one more line at its end: a preamble line while the preamble is
\* skipped, a dictionary line in read_header, a body line in read_body.
OneMoreLineAtMost ==
    /\ skipped' \in {skipped, skipped + 1}
    /\ dictionary' \in {dictionary, dictionary + 1}
    /\ body' = body \/ \E n \in 1..Len(BodyLines) : body' = Append(body, n)
    /\ skipped' # skipped => (pc = "preamble" /\ dictionary' = dictionary /\ body' = body)
    /\ dictionary' # dictionary => (pc = "header" /\ body' = body)
    /\ body' # body => pc = "body"

\* C37: the parse reads forward, once: a step adds at most one line to the
\* end of what has been read and changes nothing of it; read_body is
\* entered on the step that pulled the `End of Data Dictionary` line, with
\* no body line read yet; the step of read_body that pulls the
\* `End of Data` line leaves the loop, and once the call has returned or
\* failed nothing more is pulled.
C37_ForwardSinglePass ==
    [][/\ OneMoreLineAtMost
       /\ (pc # "body" /\ pc' = "body")
             => /\ pc = "header"
                /\ Contains(EndOfDataDictionary, pulled')
                /\ body' = <<>>
       /\ (BodyLineRead /\ LastLine' \in ClosingLines) => pc' # "body"
       /\ pc \in {"index", "done", "failed"}
             => /\ pc' \in {"index", "done", "failed"}
                /\ UNCHANGED <<pulled, skipped, dictionary, body, eof>>
      ]_vars

\* A file with two dictionary lines and three body lines before
\* `End of Data` has been parsed to its end and its environment indexed.
C37_Witness ==
    /\ pc = "done"
    /\ error = "none"
    /\ dictionary = 2
    /\ Len(body) = 4
    /\ body[1] = 1
    /\ LastLine \in ClosingLines
    /\ \A k \in 1..3 : body[k] \notin ClosingLines
    /\ Contains(EndOfData, pulled)
    /\ ~eof

\* The parse of a finite file by a sequential program: a loop that keeps
\* calling next(file) finds the file exhausted at last, and after the
\* preamble the program goes on to call read_header.  Cancellation may be
\* asked for at any time, or never.
FairSpec ==
    /\ Init
    /\ [][Next]_vars
    /\ WF_vars(Exhausted)
    /\ WF_vars(CallReadHeader)

\* process_eso_file has come to an end: it has returned its list, which is
\* being indexed or has been, or it has not and the run has failed.
Stopped == pc \in {"index", "done", "failed"}

\* A step of the loop of read_header or of read_body on a line that
\* next(file) gave.
LoopIteration ==
    /\ pc \in {"header", "body"}
    /\ cancel' = cancel
    /\ ~eof'
    /\ ~(CancelledTick /\ pc' = "failed")

\* C38: on a finite file the run comes to an end.  Every iteration of the
\* loops of read_header and read_body that goes on to another one has
\* added exactly one line to what has been read; an exhausted file ends the
\* run with IncompleteFile and nothing else does; a run that returns has
\* pulled the `End of Data` line last, a run that fails has an exception.
C38_Terminates ==
    /\ <>Stopped
    /\ [][(LoopIteration /\ pc' = pc)
             => dictionary' + Len(body') = dictionary + Len(body) + 1]_vars
    /\ [](eof <=> (pc = "failed" /\ error = "IncompleteFile"))
    /\ []((pc \in {"index", "done"} /\ error = "none") => Contains(EndOfData, pulled))
    /\ [](pc = "failed" => error # "none")

\* The three ends of a run: the file ran out in the body after an
\* environment line, or a line of the body was malformed, or read_body met
\* `End of Data` and the list has been indexed.
C38_Witness ==
    /\ Stopped
    /\ dictionary >= 2
    /\ Len(body) >= 2
    /\ \/ eof /\ error = "IncompleteFile"
       \/ pc = "index" /\ error = "none" /\ LastLine \in ClosingLines

\* read_body was called and an exception other than the Cancelled of the
\* logger has left it.
ReadBodyFailed ==
    /\ pc = "failed"
    /\ highest_interval_id > 0
    /\ error # "Cancelled"

\* C39: a run of read_body that returns no list, cancellation apart, ends
\* with InvalidLineSyntax, BlankLineError or IncompleteFile.
C39_OnlyFatalKinds == ReadBodyFailed => error \in FatalErrors


(***************************************************************************)
(* The statement line of any release.                                      *)
(***************************************************************************)
\* Releases of EnergyPlus as <<major, minor, patch>>: the releases numbered
\* 7 to 9 and the releases numbered by year.
MajorReleases == {7, 8, 9, 22, 23}

MinorReleases == 0 .. 9

PatchReleases == {0, 1}

Releases == MajorReleases \X MinorReleases \X PatchReleases

\* str(n) for a natural n.
RECURSIVE Decimal(_)
Decimal(n) ==
    IF n < 10 THEN <<Digits[n + 1]>>
    ELSE Decimal(n \div 10) \o <<Digits[(n % 10) + 1]>>

\* The dotted version EnergyPlus writes for a release.
Dotted(release) ==
    Decimal(release[1]) \o <<".">> \o Decimal(release[2]) \o <<".">> \o Decimal(release[3])

\* The statement line of a file written by a release: the line of 8.8.0
\* with the dotted version of the release in its place.
StatementLine(release) ==
    SubSeq(StatementLines[1], 1, 13) \o Dotted(release)
        \o SubSeq(StatementLines[1], 19, Len(StatementLines[1]))

\* version, timestamp = process_statement_line(next(file)) on the statement
\* line of one of the releases; the line stays in `pulled`.
ReadReleaseStatement ==
    /\ pc = "statement"
    /\ \E release \in Releases :
          /\ Statement(process_statement_line(StatementLine(release)))
          /\ pulled' = StatementLine(release)
    /\ UNCHANGED <<chunk_size, message, skipped, headers, highest_interval_id, ignore_peaks,
                   interval, all_raw_data, counter, progress, max_progress,
                   cancel, eof, processed, dictionary, body>>

\* read_file up to the call of read_header, on the file of any release.
VersionNext ==
    \/ ReadReleaseStatement
    \/ SkipPreambleLine
    \/ CallReadHeader

VersionSpec == Init /\ [][VersionNext]_vars

\* The release the annual interval came with.
AnnualRelease == <<8, 9, 0>>

\* Release a is release b or a later one.
AtOrAfter(a, b) ==
    \/ a[1] > b[1]
    \/ a[1] = b[1] /\ a[2] > b[2]
    \/ a[1] = b[1] /\ a[2] = b[2] /\ a[3] >= b[3]

\* C40: the version code read from the statement line of a release is at
\* least 890, and the highest interval id 6, exactly when the release is
\* 8.9.0 or a later one, releases with a two-digit major included.
C40_VersionCodeOrdersReleases ==
    \A release \in Releases :
        (pc = "preamble" /\ pulled = StatementLine(release))
            => /\ (version >= 890) <=> AtOrAfter(release, AnnualRelease)
               /\ (last_standard_item_id = 6) <=> AtOrAfter(release, AnnualRelease)

====
